---- MODULE Spec2Model ----
(***************************************************************************)
(* Word-chain game (I-am-a-Bird/course-project).                           *)
(*                                                                         *)
(* The repository holds two full copies of the program:                    *)
(*   src/app.js            (prog = "app")                                  *)
(*   src/unnamed/part_000  (prog = "part")                                 *)
(* Both are modelled; the variable prog says which copy is running.        *)
(*                                                                         *)
(* A JavaScript string is modelled as the sequence of its UTF-16 code      *)
(* units (1052 = U+041C, Cyrillic capital EM, and so on), so that          *)
(* toLowerCase, trim, length and indexing are computed, not assumed.       *)
(* Category names, user names and e-mail addresses, which the program only *)
(* compares and prints, are TLA+ strings; the categories are written in    *)
(* ASCII: "goroda", "zhivotnye", "rasteniya".                              *)
(*                                                                         *)
(* One step of the model is what the program does between two prompts:     *)
(* the state is observed where the program waits for input (the            *)
(* authorisation menu, the main menu, the difficulty and the name asked    *)
(* for when a game is started, a player's move).                           *)
(*                                                                         *)
(* Spec is a run that starts without users.json: one account logs in, the  *)
(* player list is changed at most MaxEdits times through the player menu   *)
(* and at most MaxGames games are played, with the words of HumanInputs    *)
(* typed at the word prompt.  SpecGame is Spec without the player menu.    *)
(* SpecFile is a run that finds a save file on disk (one of DiskFiles) and *)
(* saves and loads from the main menu.                                     *)
(***************************************************************************)
EXTENDS Integers, Sequences, FiniteSets, TLC

\* ---------------------------------------------------------------- constants
MIN_WORD_LENGTH == 2
MAX_WORDS_FOR_WIN == 5
MAX_SKIPPED_TURNS == 2

\* ------------------------------------------------------------------- bounds
\* number of changes made to the player list through the player menu
MaxEdits == 1
\* number of games started in one run of the program
MaxGames == 1

\* ------------------------------------------------------------ JS primitives
\* null, as returned by ComputerPlayer.makeMove; distinct from every string
NULL == << -1 >>

\* JS truthiness of a string-or-null value
Truthy(w) == w # NULL /\ w # << >>

Min(a, b) == IF a < b THEN a ELSE b

\* first and last element of a non-empty sequence
First(w) == w[1]
Last(w) == w[Len(w)]

\* ---- String.prototype.toLowerCase: the default (locale-independent) case
\* conversion of the Unicode Character Database, version 17.0.  A string is
\* read as code points (a surrogate pair is one code point), each code point
\* is replaced by its lower case, and the result is written back as UTF-16.

\* simple lower-case mappings: << first, last, step, delta >> maps every
\* code point first, first + step, ..., last to itself plus delta
LowerRanges ==
    {
      <<65, 90, 1, 32>>, <<192, 214, 1, 32>>, <<216, 222, 1, 32>>, <<256, 302, 2, 1>>,
      <<306, 310, 2, 1>>, <<313, 327, 2, 1>>, <<330, 374, 2, 1>>, <<376, 376, 1, -121>>,
      <<377, 381, 2, 1>>, <<385, 385, 1, 210>>, <<386, 388, 2, 1>>,
      <<390, 390, 1, 206>>, <<391, 391, 1, 1>>, <<393, 394, 1, 205>>,
      <<395, 395, 1, 1>>, <<398, 398, 1, 79>>, <<399, 399, 1, 202>>,
      <<400, 400, 1, 203>>, <<401, 401, 1, 1>>, <<403, 403, 1, 205>>,
      <<404, 404, 1, 207>>, <<406, 406, 1, 211>>, <<407, 407, 1, 209>>,
      <<408, 408, 1, 1>>, <<412, 412, 1, 211>>, <<413, 413, 1, 213>>,
      <<415, 415, 1, 214>>, <<416, 420, 2, 1>>, <<422, 422, 1, 218>>,
      <<423, 423, 1, 1>>, <<425, 425, 1, 218>>, <<428, 428, 1, 1>>,
      <<430, 430, 1, 218>>, <<431, 431, 1, 1>>, <<433, 434, 1, 217>>,
      <<435, 437, 2, 1>>, <<439, 439, 1, 219>>, <<440, 440, 1, 1>>, <<444, 444, 1, 1>>,
      <<452, 452, 1, 2>>, <<453, 453, 1, 1>>, <<455, 455, 1, 2>>, <<456, 456, 1, 1>>,
      <<458, 458, 1, 2>>, <<459, 475, 2, 1>>, <<478, 494, 2, 1>>, <<497, 497, 1, 2>>,
      <<498, 500, 2, 1>>, <<502, 502, 1, -97>>, <<503, 503, 1, -56>>,
      <<504, 542, 2, 1>>, <<544, 544, 1, -130>>, <<546, 562, 2, 1>>,
      <<570, 570, 1, 10795>>, <<571, 571, 1, 1>>, <<573, 573, 1, -163>>,
      <<574, 574, 1, 10792>>, <<577, 577, 1, 1>>, <<579, 579, 1, -195>>,
      <<580, 580, 1, 69>>, <<581, 581, 1, 71>>, <<582, 590, 2, 1>>, <<880, 882, 2, 1>>,
      <<886, 886, 1, 1>>, <<895, 895, 1, 116>>, <<902, 902, 1, 38>>,
      <<904, 906, 1, 37>>, <<908, 908, 1, 64>>, <<910, 911, 1, 63>>,
      <<913, 929, 1, 32>>, <<931, 939, 1, 32>>, <<975, 975, 1, 8>>, <<984, 1006, 2, 1>>,
      <<1012, 1012, 1, -60>>, <<1015, 1015, 1, 1>>, <<1017, 1017, 1, -7>>,
      <<1018, 1018, 1, 1>>, <<1021, 1023, 1, -130>>, <<1024, 1039, 1, 80>>,
      <<1040, 1071, 1, 32>>, <<1120, 1152, 2, 1>>, <<1162, 1214, 2, 1>>,
      <<1216, 1216, 1, 15>>, <<1217, 1229, 2, 1>>, <<1232, 1326, 2, 1>>,
      <<1329, 1366, 1, 48>>, <<4256, 4293, 1, 7264>>, <<4295, 4295, 1, 7264>>,
      <<4301, 4301, 1, 7264>>, <<5024, 5103, 1, 38864>>, <<5104, 5109, 1, 8>>,
      <<7305, 7305, 1, 1>>, <<7312, 7354, 1, -3008>>, <<7357, 7359, 1, -3008>>,
      <<7680, 7828, 2, 1>>, <<7838, 7838, 1, -7615>>, <<7840, 7934, 2, 1>>,
      <<7944, 7951, 1, -8>>, <<7960, 7965, 1, -8>>, <<7976, 7983, 1, -8>>,
      <<7992, 7999, 1, -8>>, <<8008, 8013, 1, -8>>, <<8025, 8031, 2, -8>>,
      <<8040, 8047, 1, -8>>, <<8072, 8079, 1, -8>>, <<8088, 8095, 1, -8>>,
      <<8104, 8111, 1, -8>>, <<8120, 8121, 1, -8>>, <<8122, 8123, 1, -74>>,
      <<8124, 8124, 1, -9>>, <<8136, 8139, 1, -86>>, <<8140, 8140, 1, -9>>,
      <<8152, 8153, 1, -8>>, <<8154, 8155, 1, -100>>, <<8168, 8169, 1, -8>>,
      <<8170, 8171, 1, -112>>, <<8172, 8172, 1, -7>>, <<8184, 8185, 1, -128>>,
      <<8186, 8187, 1, -126>>, <<8188, 8188, 1, -9>>, <<8486, 8486, 1, -7517>>,
      <<8490, 8490, 1, -8383>>, <<8491, 8491, 1, -8262>>, <<8498, 8498, 1, 28>>,
      <<8544, 8559, 1, 16>>, <<8579, 8579, 1, 1>>, <<9398, 9423, 1, 26>>,
      <<11264, 11311, 1, 48>>, <<11360, 11360, 1, 1>>, <<11362, 11362, 1, -10743>>,
      <<11363, 11363, 1, -3814>>, <<11364, 11364, 1, -10727>>, <<11367, 11371, 2, 1>>,
      <<11373, 11373, 1, -10780>>, <<11374, 11374, 1, -10749>>,
      <<11375, 11375, 1, -10783>>, <<11376, 11376, 1, -10782>>, <<11378, 11378, 1, 1>>,
      <<11381, 11381, 1, 1>>, <<11390, 11391, 1, -10815>>, <<11392, 11490, 2, 1>>,
      <<11499, 11501, 2, 1>>, <<11506, 11506, 1, 1>>, <<42560, 42604, 2, 1>>,
      <<42624, 42650, 2, 1>>, <<42786, 42798, 2, 1>>, <<42802, 42862, 2, 1>>,
      <<42873, 42875, 2, 1>>, <<42877, 42877, 1, -35332>>, <<42878, 42886, 2, 1>>,
      <<42891, 42891, 1, 1>>, <<42893, 42893, 1, -42280>>, <<42896, 42898, 2, 1>>,
      <<42902, 42920, 2, 1>>, <<42922, 42922, 1, -42308>>, <<42923, 42923, 1, -42319>>,
      <<42924, 42924, 1, -42315>>, <<42925, 42925, 1, -42305>>,
      <<42926, 42926, 1, -42308>>, <<42928, 42928, 1, -42258>>,
      <<42929, 42929, 1, -42282>>, <<42930, 42930, 1, -42261>>,
      <<42931, 42931, 1, 928>>, <<42932, 42946, 2, 1>>, <<42948, 42948, 1, -48>>,
      <<42949, 42949, 1, -42307>>, <<42950, 42950, 1, -35384>>, <<42951, 42953, 2, 1>>,
      <<42955, 42955, 1, -42343>>, <<42956, 42970, 2, 1>>, <<42972, 42972, 1, -42561>>,
      <<42997, 42997, 1, 1>>, <<65313, 65338, 1, 32>>, <<66560, 66599, 1, 40>>,
      <<66736, 66771, 1, 40>>, <<66928, 66964, 2, 39>>, <<66929, 66937, 2, 39>>,
      <<66941, 66953, 2, 39>>, <<66957, 66961, 2, 39>>, <<66965, 66965, 1, 39>>,
      <<68736, 68786, 1, 64>>, <<68944, 68965, 1, 32>>, <<71840, 71871, 1, 32>>,
      <<93760, 93791, 1, 32>>, <<93856, 93880, 1, 27>>, <<125184, 125217, 1, 34>>
    }

\* the code points << first, last >> with the property Case_Ignorable
CaseIgnorableRanges ==
    {
      <<39, 39>>, <<46, 46>>, <<58, 58>>, <<94, 94>>, <<96, 96>>, <<168, 168>>,
      <<173, 173>>, <<175, 175>>, <<180, 180>>, <<183, 184>>, <<688, 879>>,
      <<884, 885>>, <<890, 890>>, <<900, 901>>, <<903, 903>>, <<1155, 1161>>,
      <<1369, 1369>>, <<1375, 1375>>, <<1425, 1469>>, <<1471, 1471>>, <<1473, 1474>>,
      <<1476, 1477>>, <<1479, 1479>>, <<1524, 1524>>, <<1536, 1541>>, <<1552, 1562>>,
      <<1564, 1564>>, <<1600, 1600>>, <<1611, 1631>>, <<1648, 1648>>, <<1750, 1757>>,
      <<1759, 1768>>, <<1770, 1773>>, <<1807, 1807>>, <<1809, 1809>>, <<1840, 1866>>,
      <<1958, 1968>>, <<2027, 2037>>, <<2042, 2042>>, <<2045, 2045>>, <<2070, 2093>>,
      <<2137, 2139>>, <<2184, 2184>>, <<2192, 2193>>, <<2199, 2207>>, <<2249, 2306>>,
      <<2362, 2362>>, <<2364, 2364>>, <<2369, 2376>>, <<2381, 2381>>, <<2385, 2391>>,
      <<2402, 2403>>, <<2417, 2417>>, <<2433, 2433>>, <<2492, 2492>>, <<2497, 2500>>,
      <<2509, 2509>>, <<2530, 2531>>, <<2558, 2558>>, <<2561, 2562>>, <<2620, 2620>>,
      <<2625, 2626>>, <<2631, 2632>>, <<2635, 2637>>, <<2641, 2641>>, <<2672, 2673>>,
      <<2677, 2677>>, <<2689, 2690>>, <<2748, 2748>>, <<2753, 2757>>, <<2759, 2760>>,
      <<2765, 2765>>, <<2786, 2787>>, <<2810, 2815>>, <<2817, 2817>>, <<2876, 2876>>,
      <<2879, 2879>>, <<2881, 2884>>, <<2893, 2893>>, <<2901, 2902>>, <<2914, 2915>>,
      <<2946, 2946>>, <<3008, 3008>>, <<3021, 3021>>, <<3072, 3072>>, <<3076, 3076>>,
      <<3132, 3132>>, <<3134, 3136>>, <<3142, 3144>>, <<3146, 3149>>, <<3157, 3158>>,
      <<3170, 3171>>, <<3201, 3201>>, <<3260, 3260>>, <<3263, 3263>>, <<3270, 3270>>,
      <<3276, 3277>>, <<3298, 3299>>, <<3328, 3329>>, <<3387, 3388>>, <<3393, 3396>>,
      <<3405, 3405>>, <<3426, 3427>>, <<3457, 3457>>, <<3530, 3530>>, <<3538, 3540>>,
      <<3542, 3542>>, <<3633, 3633>>, <<3636, 3642>>, <<3654, 3662>>, <<3761, 3761>>,
      <<3764, 3772>>, <<3782, 3782>>, <<3784, 3790>>, <<3864, 3865>>, <<3893, 3893>>,
      <<3895, 3895>>, <<3897, 3897>>, <<3953, 3966>>, <<3968, 3972>>, <<3974, 3975>>,
      <<3981, 3991>>, <<3993, 4028>>, <<4038, 4038>>, <<4141, 4144>>, <<4146, 4151>>,
      <<4153, 4154>>, <<4157, 4158>>, <<4184, 4185>>, <<4190, 4192>>, <<4209, 4212>>,
      <<4226, 4226>>, <<4229, 4230>>, <<4237, 4237>>, <<4253, 4253>>, <<4348, 4348>>,
      <<4957, 4959>>, <<5906, 5908>>, <<5938, 5939>>, <<5970, 5971>>, <<6002, 6003>>,
      <<6068, 6069>>, <<6071, 6077>>, <<6086, 6086>>, <<6089, 6099>>, <<6103, 6103>>,
      <<6109, 6109>>, <<6155, 6159>>, <<6211, 6211>>, <<6277, 6278>>, <<6313, 6313>>,
      <<6432, 6434>>, <<6439, 6440>>, <<6450, 6450>>, <<6457, 6459>>, <<6679, 6680>>,
      <<6683, 6683>>, <<6742, 6742>>, <<6744, 6750>>, <<6752, 6752>>, <<6754, 6754>>,
      <<6757, 6764>>, <<6771, 6780>>, <<6783, 6783>>, <<6823, 6823>>, <<6832, 6877>>,
      <<6880, 6891>>, <<6912, 6915>>, <<6964, 6964>>, <<6966, 6970>>, <<6972, 6972>>,
      <<6978, 6978>>, <<7019, 7027>>, <<7040, 7041>>, <<7074, 7077>>, <<7080, 7081>>,
      <<7083, 7085>>, <<7142, 7142>>, <<7144, 7145>>, <<7149, 7149>>, <<7151, 7153>>,
      <<7212, 7219>>, <<7222, 7223>>, <<7288, 7293>>, <<7376, 7378>>, <<7380, 7392>>,
      <<7394, 7400>>, <<7405, 7405>>, <<7412, 7412>>, <<7416, 7417>>, <<7468, 7530>>,
      <<7544, 7544>>, <<7579, 7679>>, <<8125, 8125>>, <<8127, 8129>>, <<8141, 8143>>,
      <<8157, 8159>>, <<8173, 8175>>, <<8189, 8190>>, <<8203, 8207>>, <<8216, 8217>>,
      <<8228, 8228>>, <<8231, 8231>>, <<8234, 8238>>, <<8288, 8292>>, <<8294, 8303>>,
      <<8305, 8305>>, <<8319, 8319>>, <<8336, 8348>>, <<8400, 8432>>, <<11388, 11389>>,
      <<11503, 11505>>, <<11631, 11631>>, <<11647, 11647>>, <<11744, 11775>>,
      <<11823, 11823>>, <<12293, 12293>>, <<12330, 12333>>, <<12337, 12341>>,
      <<12347, 12347>>, <<12441, 12446>>, <<12540, 12542>>, <<40981, 40981>>,
      <<42232, 42237>>, <<42508, 42508>>, <<42607, 42610>>, <<42612, 42621>>,
      <<42623, 42623>>, <<42652, 42655>>, <<42736, 42737>>, <<42752, 42785>>,
      <<42864, 42864>>, <<42888, 42890>>, <<42993, 42996>>, <<43000, 43001>>,
      <<43010, 43010>>, <<43014, 43014>>, <<43019, 43019>>, <<43045, 43046>>,
      <<43052, 43052>>, <<43204, 43205>>, <<43232, 43249>>, <<43263, 43263>>,
      <<43302, 43309>>, <<43335, 43345>>, <<43392, 43394>>, <<43443, 43443>>,
      <<43446, 43449>>, <<43452, 43453>>, <<43471, 43471>>, <<43493, 43494>>,
      <<43561, 43566>>, <<43569, 43570>>, <<43573, 43574>>, <<43587, 43587>>,
      <<43596, 43596>>, <<43632, 43632>>, <<43644, 43644>>, <<43696, 43696>>,
      <<43698, 43700>>, <<43703, 43704>>, <<43710, 43711>>, <<43713, 43713>>,
      <<43741, 43741>>, <<43756, 43757>>, <<43763, 43764>>, <<43766, 43766>>,
      <<43867, 43871>>, <<43881, 43883>>, <<44005, 44005>>, <<44008, 44008>>,
      <<44013, 44013>>, <<64286, 64286>>, <<64434, 64450>>, <<65024, 65039>>,
      <<65043, 65043>>, <<65056, 65071>>, <<65106, 65106>>, <<65109, 65109>>,
      <<65279, 65279>>, <<65287, 65287>>, <<65294, 65294>>, <<65306, 65306>>,
      <<65342, 65342>>, <<65344, 65344>>, <<65392, 65392>>, <<65438, 65439>>,
      <<65507, 65507>>, <<65529, 65531>>, <<66045, 66045>>, <<66272, 66272>>,
      <<66422, 66426>>, <<67456, 67461>>, <<67463, 67504>>, <<67506, 67514>>,
      <<68097, 68099>>, <<68101, 68102>>, <<68108, 68111>>, <<68152, 68154>>,
      <<68159, 68159>>, <<68325, 68326>>, <<68900, 68903>>, <<68942, 68942>>,
      <<68969, 68973>>, <<68975, 68975>>, <<69291, 69292>>, <<69317, 69317>>,
      <<69370, 69375>>, <<69446, 69456>>, <<69506, 69509>>, <<69633, 69633>>,
      <<69688, 69702>>, <<69744, 69744>>, <<69747, 69748>>, <<69759, 69761>>,
      <<69811, 69814>>, <<69817, 69818>>, <<69821, 69821>>, <<69826, 69826>>,
      <<69837, 69837>>, <<69888, 69890>>, <<69927, 69931>>, <<69933, 69940>>,
      <<70003, 70003>>, <<70016, 70017>>, <<70070, 70078>>, <<70089, 70092>>,
      <<70095, 70095>>, <<70191, 70193>>, <<70196, 70196>>, <<70198, 70199>>,
      <<70206, 70206>>, <<70209, 70209>>, <<70367, 70367>>, <<70371, 70378>>,
      <<70400, 70401>>, <<70459, 70460>>, <<70464, 70464>>, <<70502, 70508>>,
      <<70512, 70516>>, <<70587, 70592>>, <<70606, 70606>>, <<70608, 70608>>,
      <<70610, 70610>>, <<70625, 70626>>, <<70712, 70719>>, <<70722, 70724>>,
      <<70726, 70726>>, <<70750, 70750>>, <<70835, 70840>>, <<70842, 70842>>,
      <<70847, 70848>>, <<70850, 70851>>, <<71090, 71093>>, <<71100, 71101>>,
      <<71103, 71104>>, <<71132, 71133>>, <<71219, 71226>>, <<71229, 71229>>,
      <<71231, 71232>>, <<71339, 71339>>, <<71341, 71341>>, <<71344, 71349>>,
      <<71351, 71351>>, <<71453, 71453>>, <<71455, 71455>>, <<71458, 71461>>,
      <<71463, 71467>>, <<71727, 71735>>, <<71737, 71738>>, <<71995, 71996>>,
      <<71998, 71998>>, <<72003, 72003>>, <<72148, 72151>>, <<72154, 72155>>,
      <<72160, 72160>>, <<72193, 72202>>, <<72243, 72248>>, <<72251, 72254>>,
      <<72263, 72263>>, <<72273, 72278>>, <<72281, 72283>>, <<72330, 72342>>,
      <<72344, 72345>>, <<72544, 72544>>, <<72546, 72548>>, <<72550, 72550>>,
      <<72752, 72758>>, <<72760, 72765>>, <<72767, 72767>>, <<72850, 72871>>,
      <<72874, 72880>>, <<72882, 72883>>, <<72885, 72886>>, <<73009, 73014>>,
      <<73018, 73018>>, <<73020, 73021>>, <<73023, 73029>>, <<73031, 73031>>,
      <<73104, 73105>>, <<73109, 73109>>, <<73111, 73111>>, <<73177, 73177>>,
      <<73459, 73460>>, <<73472, 73473>>, <<73526, 73530>>, <<73536, 73536>>,
      <<73538, 73538>>, <<73562, 73562>>, <<78896, 78912>>, <<78919, 78933>>,
      <<90398, 90409>>, <<90413, 90415>>, <<92912, 92916>>, <<92976, 92982>>,
      <<92992, 92995>>, <<93504, 93506>>, <<93547, 93548>>, <<94031, 94031>>,
      <<94095, 94111>>, <<94176, 94177>>, <<94179, 94180>>, <<94194, 94195>>,
      <<110576, 110579>>, <<110581, 110587>>, <<110589, 110590>>, <<113821, 113822>>,
      <<113824, 113827>>, <<118528, 118573>>, <<118576, 118598>>, <<119143, 119145>>,
      <<119155, 119170>>, <<119173, 119179>>, <<119210, 119213>>, <<119362, 119364>>,
      <<121344, 121398>>, <<121403, 121452>>, <<121461, 121461>>, <<121476, 121476>>,
      <<121499, 121503>>, <<121505, 121519>>, <<122880, 122886>>, <<122888, 122904>>,
      <<122907, 122913>>, <<122915, 122916>>, <<122918, 122922>>, <<122928, 122989>>,
      <<123023, 123023>>, <<123184, 123197>>, <<123566, 123566>>, <<123628, 123631>>,
      <<124139, 124143>>, <<124398, 124399>>, <<124643, 124643>>, <<124646, 124646>>,
      <<124654, 124655>>, <<124661, 124661>>, <<124671, 124671>>, <<125136, 125142>>,
      <<125252, 125259>>, <<127995, 127999>>, <<917505, 917505>>, <<917536, 917631>>,
      <<917760, 917999>>
    }

\* the code points << first, last >> with the property Cased that are not
\* case-ignorable
CasedRanges ==
    {
      <<65, 90>>, <<97, 122>>, <<170, 170>>, <<181, 181>>, <<186, 186>>, <<192, 214>>,
      <<216, 246>>, <<248, 442>>, <<444, 447>>, <<452, 659>>, <<662, 687>>,
      <<880, 883>>, <<886, 887>>, <<891, 893>>, <<895, 895>>, <<902, 902>>,
      <<904, 906>>, <<908, 908>>, <<910, 929>>, <<931, 1013>>, <<1015, 1153>>,
      <<1162, 1327>>, <<1329, 1366>>, <<1376, 1416>>, <<4256, 4293>>, <<4295, 4295>>,
      <<4301, 4301>>, <<4304, 4346>>, <<4349, 4351>>, <<5024, 5109>>, <<5112, 5117>>,
      <<7296, 7306>>, <<7312, 7354>>, <<7357, 7359>>, <<7424, 7467>>, <<7531, 7543>>,
      <<7545, 7578>>, <<7680, 7957>>, <<7960, 7965>>, <<7968, 8005>>, <<8008, 8013>>,
      <<8016, 8023>>, <<8025, 8025>>, <<8027, 8027>>, <<8029, 8029>>, <<8031, 8061>>,
      <<8064, 8116>>, <<8118, 8124>>, <<8126, 8126>>, <<8130, 8132>>, <<8134, 8140>>,
      <<8144, 8147>>, <<8150, 8155>>, <<8160, 8172>>, <<8178, 8180>>, <<8182, 8188>>,
      <<8450, 8450>>, <<8455, 8455>>, <<8458, 8467>>, <<8469, 8469>>, <<8473, 8477>>,
      <<8484, 8484>>, <<8486, 8486>>, <<8488, 8488>>, <<8490, 8493>>, <<8495, 8500>>,
      <<8505, 8505>>, <<8508, 8511>>, <<8517, 8521>>, <<8526, 8526>>, <<8544, 8575>>,
      <<8579, 8580>>, <<9398, 9449>>, <<11264, 11387>>, <<11390, 11492>>,
      <<11499, 11502>>, <<11506, 11507>>, <<11520, 11557>>, <<11559, 11559>>,
      <<11565, 11565>>, <<42560, 42605>>, <<42624, 42651>>, <<42786, 42863>>,
      <<42865, 42887>>, <<42891, 42894>>, <<42896, 42972>>, <<42997, 42998>>,
      <<43002, 43002>>, <<43824, 43866>>, <<43872, 43880>>, <<43888, 43967>>,
      <<64256, 64262>>, <<64275, 64279>>, <<65313, 65338>>, <<65345, 65370>>,
      <<66560, 66639>>, <<66736, 66771>>, <<66776, 66811>>, <<66928, 66938>>,
      <<66940, 66954>>, <<66956, 66962>>, <<66964, 66965>>, <<66967, 66977>>,
      <<66979, 66993>>, <<66995, 67001>>, <<67003, 67004>>, <<68736, 68786>>,
      <<68800, 68850>>, <<68944, 68965>>, <<68976, 68997>>, <<71840, 71903>>,
      <<93760, 93823>>, <<93856, 93880>>, <<93883, 93907>>, <<119808, 119892>>,
      <<119894, 119964>>, <<119966, 119967>>, <<119970, 119970>>, <<119973, 119974>>,
      <<119977, 119980>>, <<119982, 119993>>, <<119995, 119995>>, <<119997, 120003>>,
      <<120005, 120069>>, <<120071, 120074>>, <<120077, 120084>>, <<120086, 120092>>,
      <<120094, 120121>>, <<120123, 120126>>, <<120128, 120132>>, <<120134, 120134>>,
      <<120138, 120144>>, <<120146, 120485>>, <<120488, 120512>>, <<120514, 120538>>,
      <<120540, 120570>>, <<120572, 120596>>, <<120598, 120628>>, <<120630, 120654>>,
      <<120656, 120686>>, <<120688, 120712>>, <<120714, 120744>>, <<120746, 120770>>,
      <<120772, 120779>>, <<122624, 122633>>, <<122635, 122654>>, <<122661, 122666>>,
      <<125184, 125251>>, <<127280, 127305>>, <<127312, 127337>>, <<127344, 127369>>
    }

\* c plus the delta of the range that was hit, c when none was
shifted(c, hits) == IF hits = {} THEN c ELSE c + (CHOOSE r \in hits : TRUE)[4]

\* lower case of one code point that maps to one code point
toLowerCasePoint(c) ==
    shifted(c, {r \in LowerRanges :
                   c >= r[1] /\ c <= r[2] /\ (c - r[1]) % r[3] = 0})

\* lower case of one code point standing alone, as code points: U+0130
\* (capital I with dot above) becomes i followed by U+0307
toLowerCaseChar(c) ==
    IF c = 304 THEN << 105, 775 >> ELSE << toLowerCasePoint(c) >>

InRanges(ranges, c) == \E r \in ranges : c >= r[1] /\ c <= r[2]

\* what the Final_Sigma condition asks of a code point
CaseClass(c) ==
    IF InRanges(CaseIgnorableRanges, c) THEN "ignorable"
    ELSE IF InRanges(CasedRanges, c) THEN "cased"
    ELSE "other"

IsHighSurrogate(c) == c >= 55296 /\ c <= 56319
IsLowSurrogate(c) == c >= 56320 /\ c <= 57343

\* the code points of a sequence of UTF-16 code units; a surrogate that is
\* not part of a pair stands for itself
RECURSIVE CodePoints(_)
CodePoints(w) ==
    IF w = << >> THEN << >>
    ELSE IF Len(w) >= 2 /\ IsHighSurrogate(w[1]) /\ IsLowSurrogate(w[2])
         THEN << 65536 + ((w[1] - 55296) * 1024) + (w[2] - 56320) >>
              \o CodePoints(SubSeq(w, 3, Len(w)))
         ELSE << w[1] >> \o CodePoints(Tail(w))

\* the UTF-16 code units of a sequence of code points
RECURSIVE CodeUnits(_)
CodeUnits(cps) ==
    IF cps = << >> THEN << >>
    ELSE (IF cps[1] >= 65536
          THEN << 55296 + ((cps[1] - 65536) \div 1024),
                  56320 + ((cps[1] - 65536) % 1024) >>
          ELSE << cps[1] >>)
         \o CodeUnits(Tail(cps))

\* the greatest and the least element of a non-empty set of positions
lastOf(S) == CHOOSE j \in S : \A k \in S : j >= k
firstOf(S) == CHOOSE j \in S : \A k \in S : j <= k

\* Final_Sigma, from the classes of the code points: position i follows a
\* cased letter and is not followed by one, case-ignorable code points
\* being skipped
FinalSigma(classes, i) ==
    /\ \E j \in 1..(i - 1) : classes[j] # "ignorable"
    /\ classes[lastOf({j \in 1..(i - 1) : classes[j] # "ignorable"})] = "cased"
    /\ \/ \A j \in (i + 1)..Len(classes) : classes[j] = "ignorable"
       \/ classes[firstOf({j \in (i + 1)..Len(classes) :
                             classes[j] # "ignorable"})] # "cased"

\* the lower case of the code points from position i on: a capital sigma
\* in final position becomes U+03C2, every other code point its lower case
RECURSIVE toLowerCaseFrom(_, _, _)
toLowerCaseFrom(cps, classes, i) ==
    IF i > Len(cps) THEN << >>
    ELSE (IF cps[i] = 931 /\ FinalSigma(classes, i) THEN << 962 >>
          ELSE toLowerCaseChar(cps[i]))
         \o toLowerCaseFrom(cps, classes, i + 1)

toLowerCasePoints(cps) ==
    toLowerCaseFrom(cps, [j \in 1..Len(cps) |-> CaseClass(cps[j])], 1)

\* code units whose lower case needs no table: ASCII and Cyrillic
\* U+0400..U+045F, where the mapping is +32 (A-Z, U+0410..U+042F) or +80
\* (U+0400..U+040F); null is left alone
SimpleUnit(c) == c < 128 \/ (c >= 1024 /\ c <= 1119)

toLowerCaseSimple(c) ==
    IF (c >= 65 /\ c <= 90) \/ (c >= 1040 /\ c <= 1071) THEN c + 32
    ELSE IF c >= 1024 /\ c <= 1039 THEN c + 80
    ELSE c

\* String.prototype.toLowerCase
toLowerCase(w) ==
    IF \A i \in 1..Len(w) : SimpleUnit(w[i])
    THEN [i \in 1..Len(w) |-> toLowerCaseSimple(w[i])]
    ELSE CodeUnits(toLowerCasePoints(CodePoints(w)))

\* WhiteSpace and LineTerminator code units, removed by String.prototype.trim
IsSpace(c) ==
    \/ c \in {9, 10, 11, 12, 13, 32, 160, 5760, 8232, 8233, 8239, 8287,
              12288, 65279}
    \/ c >= 8192 /\ c <= 8202

\* String.prototype.trim
trim(w) ==
    LET keep == {i \in 1..Len(w) : ~IsSpace(w[i])}
    IN IF keep = {} THEN << >>
       ELSE LET lo == CHOOSE i \in keep : \A j \in keep : i <= j
                hi == CHOOSE i \in keep : \A j \in keep : i >= j
            IN SubSeq(w, lo, hi)

\* ------------------------------------------------------------ configuration
CATEGORIES == << "goroda", "zhivotnye", "rasteniya" >>
DIFFICULTY_LEVELS == << "easy", "medium", "hard" >>

\* animals and plants are the same lists in both copies
Zhivotnye ==
    << <<1040, 1085, 1090, 1080, 1083, 1086, 1087, 1072>>,  \* Antilopa
       <<1041, 1072, 1088, 1072, 1085>>,                    \* Baran
       <<1053, 1086, 1089, 1086, 1088, 1086, 1075>>,        \* Nosorog
       <<1043, 1077, 1087, 1072, 1088, 1076>>,              \* Gepard
       <<1044, 1077, 1083, 1100, 1092, 1080, 1085>>,        \* Del'fin
       <<1045, 1085, 1086, 1090>>,                          \* Enot
       <<1046, 1080, 1088, 1072, 1092>>,                    \* Zhiraf
       <<1047, 1077, 1073, 1088, 1072>>,                    \* Zebra
       <<1048, 1075, 1091, 1072, 1085, 1072>>,              \* Iguana
       <<1050, 1077, 1085, 1075, 1091, 1088, 1091>> >>      \* Kenguru

Rasteniya ==
    << <<1040, 1082, 1072, 1094, 1080, 1103>>,              \* Akatsiya
       <<1041, 1077, 1088, 1077, 1079, 1072>>,              \* Bereza
       <<1056, 1086, 1084, 1072, 1096, 1082, 1072>>,        \* Romashka
       <<1043, 1074, 1086, 1079, 1076, 1080, 1082, 1072>>,  \* Gvozdika
       <<1044, 1091, 1073>>,                                \* Dub
       <<1045, 1083, 1100>>,                                \* El'
       <<1046, 1072, 1089, 1084, 1080, 1085>>,              \* Zhasmin
       <<1048, 1088, 1080, 1089>>,                          \* Iris
       <<1050, 1077, 1076, 1088>>,                          \* Kedr
       <<1051, 1080, 1087, 1072>> >>                        \* Lipa

\* ComputerPlayer.#wordDatabase of src/app.js
wordDatabaseApp ==
    [c \in {"goroda", "zhivotnye", "rasteniya"} |->
       IF c = "goroda" THEN
         << <<1052, 1086, 1089, 1082, 1074, 1072>>,                   \* Moskva
            <<1040, 1084, 1089, 1090, 1077, 1088, 1076, 1072, 1084>>, \* Amsterdam
            <<1052, 1072, 1076, 1088, 1080, 1076>>,                   \* Madrid
            <<1051, 1086, 1085, 1076, 1086, 1085>>,                   \* London
            <<1054, 1089, 1083, 1086>>,                               \* Oslo
            <<1050, 1080, 1077, 1074>>,                               \* Kiev
            <<1042, 1072, 1088, 1096, 1072, 1074, 1072>>,             \* Varshava
            <<1056, 1080, 1084>>,                                     \* Rim
            <<1055, 1072, 1088, 1080, 1078>>,                         \* Parizh
            <<1041, 1077, 1088, 1083, 1080, 1085>> >>                 \* Berlin
       ELSE IF c = "zhivotnye" THEN Zhivotnye ELSE Rasteniya]

\* ComputerPlayer.#wordDatabase of src/unnamed/part_000
wordDatabasePart ==
    [c \in {"goroda", "zhivotnye", "rasteniya"} |->
       IF c = "goroda" THEN
         << <<1052, 1086, 1089, 1082, 1074, 1072>>,                   \* Moskva
            <<1040, 1084, 1089, 1090, 1077, 1088, 1076, 1072, 1084>>, \* Amsterdam
            <<1052, 1072, 1076, 1088, 1080, 1076>>,                   \* Madrid
            <<1051, 1086, 1085, 1076, 1086, 1085>>,                   \* London
            <<1054, 1089, 1083, 1086>>,                               \* Oslo
            <<1054, 1084, 1089, 1082>>,                               \* Omsk
            <<1050, 1080, 1077, 1074>>,                               \* Kiev
            <<1042, 1072, 1088, 1096, 1072, 1074, 1072>>,             \* Varshava
            <<1040, 1092, 1080, 1085, 1099>>,                         \* Afiny
            <<1057, 1086, 1095, 1080>> >>                             \* Sochi
       ELSE IF c = "zhivotnye" THEN Zhivotnye ELSE Rasteniya]

\* ------------------------------------------------------------------- inputs
\* what a person types at the word prompt (before HumanPlayer.makeMove trims)
HumanInputs ==
    { << >>,                                                    \* (just Enter)
      <<32>>,                                                   \* " "
      <<1072>>,                                                 \* "a"
      <<1084, 1086, 1089, 1082, 1074, 1072>>,                   \* "moskva"
      <<1040, 1084, 1089, 1090, 1077, 1088, 1076, 1072, 1084>>, \* "Amsterdam"
      <<32, 1076, 1072, 32>>,                                   \* " da "
      <<1072, 1076>>,                                           \* "ad"
      <<1040, 1044>>,                                           \* "AD"
      <<1076, 1086, 1084>> }                                    \* "dom"

\* names typed at the name prompts, e-mails typed at the e-mail prompt
GameNames == { <<65, 110, 110>> }                               \* "Ann"
PlayerNames == { <<66, 111, 98, 32>> }                          \* "Bob "
Emails == {"bob@x.io"}
\* outcomes of Math.random().toString(36).substr(2, 9)
Ids == {"id1"}
\* the account that logs in
LoginNames == {"user"}

\* -------------------------------------------------------------------- state
VARIABLES
    prog,             \* which copy of the program runs: "app" or "part"
    pc,               \* "auth" (#authMenu prompt), "menu" (#mainMenu prompt),
                      \* "difficulty", "name" (#startNewGame awaits the
                      \* difficulty, the name), "move" (#gameLoop awaits makeMove),
                      \* "crashed" (main's catch: process.exit(1))
    users,            \* UserManager.#users: username -> [role, email]
    userStats,        \* UserManager.#userStats: username -> stats record
    players,          \* WordGame.#players (sequence of player records)
    usedWords,        \* WordGame.#usedWords: the members of the Set
    usedWordsOrder,   \* WordGame.#usedWords: the members in the order the Set
                      \* iterates them, the order of insertion
    currentCategory,  \* WordGame.#currentCategory
    lastWord,         \* WordGame.#lastWord
    isGameActive,     \* WordGame.#isGameActive
    currentUser,      \* WordGame.#currentUser
    playerIdx,        \* gameLoop local: index (from 0) of the player to move
    skipped,          \* gameLoop local: skipped / skippedTurns
    round,            \* gameLoop local of src/app.js (0 in the other copy)
    diff,             \* #startNewGame local of src/app.js while the name is
                      \* awaited ("" at every other prompt)
    games,            \* number of games started (bounded by MaxGames)
    edits,            \* number of player-list changes (bounded by MaxEdits)
    prevAccepted,     \* history: the word accepted before lastWord in the
                      \* current game (<< >> when fewer than two)
    accepted,         \* history: number of words accepted in the current game
    results,          \* history: accepted (TRUE) or rejected (FALSE), for the
                      \* last two resolved turns of the current game
    outcome,          \* history: "none", "won" (word count), "attrition"
    winner,           \* history: index (from 0) showWinner declared, or -1
    turns,            \* history: turns resolved in the game, accepted or not
    file,             \* the save file on disk (game_save.json)
    loadResult        \* history: how the latest loadGame of this run ended:
                      \* "none" (no load yet), "absent", "unreadable",
                      \* "failed" (deserialize threw), "loaded"

gameVars ==
    << players, usedWords, usedWordsOrder, currentCategory, lastWord, isGameActive >>
loopVars == << playerIdx, skipped, round >>
histVars == << games, prevAccepted, accepted, results, outcome, winner, turns >>
fileVars == << file, loadResult >>
vars == << prog, pc, users, userStats, currentUser, gameVars, loopVars, diff, histVars,
          edits, fileVars >>

\* the last two entries of a history sequence
lastTwo(s) == IF Len(s) <= 2 THEN s ELSE SubSeq(s, Len(s) - 1, Len(s))

\* WordGame.#currentUser = null
NoUser == [username |-> "", role |-> "", email |-> ""]

\* ------------------------------------------------------------------ players
\* A player object is a record.  type is constructor.name; the fields of the
\* other subclass are "" (they do not exist on the object).  db is the state
\* of ComputerPlayer.#wordDatabase: "filled" by the constructor, "emptied" by
\* ComputerPlayer.deserialize of src/unnamed/part_000.

\* new HumanPlayer(n, e, u): score 0, a random id
HumanPlayer(n, e, u, id) ==
    [type |-> "HumanPlayer", name |-> n, score |-> 0, id |-> id,
     email |-> e, username |-> u, difficulty |-> "", db |-> ""]

\* the name the ComputerPlayer constructor passes to super()
COMPUTER_NAME == <<1050, 1086, 1084, 1087, 1100, 1102, 1090, 1077, 1088>>

\* new ComputerPlayer(d)
ComputerPlayer(d, id) ==
    [type |-> "ComputerPlayer", name |-> COMPUTER_NAME, score |-> 0, id |-> id,
     email |-> "", username |-> "", difficulty |-> d, db |-> "filled"]

\* Player.addPoint(p) on the player at index i (from 0)
addPoint(pls, i, p) == [pls EXCEPT ![i + 1].score = @ + p]

\* mutant: the scores of the game before are kept
resetScore_Kept(pls) == pls

\* players.forEach(p => p.resetScore())
resetScore(pls) == [i \in 1..Len(pls) |-> [pls[i] EXCEPT !.score = 0]]

\* players.find(p => p instanceof T): its index from 1, or 0 (undefined)
find(pls, T) ==
    LET hits == {i \in 1..Len(pls) : pls[i].type = T}
    IN IF hits = {} THEN 0 ELSE CHOOSE i \in hits : \A j \in hits : i <= j

\* -------------------------------------------------------------- validation
\* mutant: > for >=
Validator_validateWord_Strict(w) == Truthy(w) /\ Len(trim(w)) > MIN_WORD_LENGTH

\* Validator.validateWord (src/app.js)
Validator_validateWord(w) == Truthy(w) /\ Len(trim(w)) >= MIN_WORD_LENGTH

\* WordGame.#validateWord of src/app.js
validateWordApp(w, lastW, used) ==
    IF ~Validator_validateWord(w) THEN FALSE
    ELSE LET lw == toLowerCase(w)
             llw == IF Truthy(lastW) THEN toLowerCase(lastW) ELSE << >>
         IN IF lw \in used THEN FALSE
            ELSE IF Truthy(lastW) /\ lw[1] # llw[Len(llw)] THEN FALSE
            ELSE TRUE

\* WordGame.#validateWord of src/unnamed/part_000
validateWordPart(w, lastW, used) ==
    IF ~Truthy(w) \/ Len(w) < 2 THEN FALSE
    ELSE LET lowerWord == toLowerCase(w)
             lowerLastWord == IF Truthy(lastW) THEN toLowerCase(lastW) ELSE << >>
             isNewWord == lowerWord \notin used
             isValidSequence ==
                 ~Truthy(lastW) \/ lowerWord[1] = lowerLastWord[Len(lowerLastWord)]
         IN isNewWord /\ isValidSequence

\* mutant: the chain test is left out
validateWord_NoChainTest(w, lastW, used) ==
    IF ~Truthy(w) \/ Len(trim(w)) < MIN_WORD_LENGTH THEN FALSE
    ELSE toLowerCase(w) \notin used

\* mutant: the used-word test is left out
validateWord_NoUsedTest(w, lastW, used) ==
    IF ~Truthy(w) \/ Len(trim(w)) < MIN_WORD_LENGTH THEN FALSE
    ELSE ~Truthy(lastW) \/ First(toLowerCase(w)) = Last(toLowerCase(lastW))

\* the copy that runs
validateWord(w, lastW, used) ==
    IF prog = "app" THEN validateWordApp(w, lastW, used)
    ELSE validateWordPart(w, lastW, used)

\* mutant: the word is stored as typed
usedKey_AsTyped(w) == w

\* the canonical form the game loop adds to the used-word set
usedKey(w) == toLowerCase(w)

\* points for an accepted word: Math.min(Math.floor(word.length/2), 3) in
\* src/app.js, addPoint() with its default of 1 in the other copy
wordPoints(w) == IF prog = "app" THEN Min(Len(w) \div 2, 3) ELSE 1

\* ---------------------------------------------------------- computer player
wordDatabase == IF prog = "app" THEN wordDatabaseApp ELSE wordDatabasePart

\* this.#wordDatabase[category] || [] of the ComputerPlayer object p
categoryWords(p, category) ==
    IF p.db = "emptied" \/ category \notin DOMAIN wordDatabase THEN << >>
    ELSE wordDatabase[category]

\* mutant: the filter does not look at the used words
getAvailableWords_NoUsedTest(p, lastW, used, category) ==
    LET words == categoryWords(p, category)
        ok(w) == LET lowerWord == toLowerCase(w)
                     lowerLastWord == IF Truthy(lastW) THEN toLowerCase(lastW)
                                      ELSE << >>
                 IN \/ ~Truthy(lastW)
                    \/ lowerWord[1] = lowerLastWord[Len(lowerLastWord)]
    IN SelectSeq(words, ok)

\* ComputerPlayer.#getAvailableWords / the filter of makeMove, for object p
getAvailableWords(p, lastW, used, category) ==
    LET words == categoryWords(p, category)
        ok(w) == LET lowerWord == toLowerCase(w)
                     lowerLastWord == IF Truthy(lastW) THEN toLowerCase(lastW)
                                      ELSE << >>
                 IN /\ lowerWord \notin used
                    /\ \/ ~Truthy(lastW)
                       \/ lowerWord[1] = lowerLastWord[Len(lowerLastWord)]
    IN SelectSeq(words, ok)

\* words.reduce((a,b) => a.length > b.length ? a : b, words[0])  (src/app.js)
RECURSIVE reduceHardApp(_, _, _)
reduceHardApp(words, i, a) ==
    IF i > Len(words) THEN a
    ELSE reduceHardApp(words, i + 1,
                       IF Len(a) > Len(words[i]) THEN a ELSE words[i])

\* words.reduce((longest, current) =>
\*     current.length > longest.length ? current : longest, words[0])
RECURSIVE reduceHardPart(_, _, _)
reduceHardPart(words, i, longest) ==
    IF i > Len(words) THEN longest
    ELSE reduceHardPart(words, i + 1,
                        IF Len(words[i]) > Len(longest) THEN words[i] ELSE longest)

\* the words #selectWordByDifficulty may return (Math.random in the default)
selectWordByDifficulty(words, difficulty) ==
    IF difficulty = "easy" THEN {words[1]}
    ELSE IF difficulty = "hard"
         THEN {IF prog = "app" THEN reduceHardApp(words, 1, words[1])
               ELSE reduceHardPart(words, 1, words[1])}
    ELSE {words[i] : i \in 1..Len(words)}

\* the values ComputerPlayer.makeMove may return
makeMoveComputer(p, lastW, used, category) ==
    LET availableWords == getAvailableWords(p, lastW, used, category)
    IN IF Len(availableWords) = 0 THEN {NULL}
       ELSE selectWordByDifficulty(availableWords, p.difficulty)

\* HumanPlayer.makeMove: the typed line, trimmed
makeMoveHuman(raw) == trim(raw)

\* ------------------------------------------------------------------- winner
\* players.reduce((a, b) => a.score > b.score ? a : b), as an index from 1
RECURSIVE reduceWinner(_, _, _)
reduceWinner(pls, i, a) ==
    IF i > Len(pls) THEN a
    ELSE reduceWinner(pls, i + 1, IF pls[a].score > pls[i].score THEN a ELSE i)

\* WordGame.#showWinner: the index (from 0) of the player it announces
showWinner(pls) == reduceWinner(pls, 2, 1) - 1

\* --------------------------------------------------------------------- stats
\* The stats record registerUser / updateUserStats create.  The model keeps
\* its four counters; the wordsUsed list and the categories tally that
\* src/app.js also appends to are written and never read by the program.
freshStats == [gamesPlayed |-> 0, totalScore |-> 0, wins |-> 0, bestScore |-> 0]

\* UserManager.updateUserStats of src/app.js: creates the record when absent
updateUserStatsApp(st, u, s, win, w, cat) ==
    LET stats == IF u \in DOMAIN st THEN st[u] ELSE freshStats
        stats2 ==
          [gamesPlayed |-> stats.gamesPlayed + 1,
           totalScore |-> stats.totalScore + s,
           wins |-> IF win THEN stats.wins + 1 ELSE stats.wins,
           bestScore |-> IF s > stats.bestScore THEN s ELSE stats.bestScore]
    IN (u :> stats2) @@ st

\* UserManager.updateUserStats of src/unnamed/part_000: only when present
updateUserStatsPart(st, u, score, isWin) ==
    IF u \in DOMAIN st
    THEN [st EXCEPT ![u] =
            [gamesPlayed |-> @.gamesPlayed + 1,
             totalScore |-> @.totalScore + score,
             wins |-> IF isWin THEN @.wins + 1 ELSE @.wins,
             bestScore |-> IF score > @.bestScore THEN score ELSE @.bestScore]]
    ELSE st

\* WordGame.#updateStats of src/app.js
updateStats(st, pls, lastW, cat) ==
    LET h == find(pls, "HumanPlayer")
        c == find(pls, "ComputerPlayer")
    IN IF h # 0 /\ pls[h].username # ""
       THEN updateUserStatsApp(st, pls[h].username, pls[h].score,
                               IF c # 0 THEN pls[h].score > pls[c].score ELSE TRUE,
                               lastW, cat)
       ELSE st

\* the stats block inside the loop of src/unnamed/part_000 reads
\* this.#players[1].score: a TypeError when the list holds one player
statsThrowsPart(pls) ==
    LET h == find(pls, "HumanPlayer")
    IN h # 0 /\ pls[h].username # "" /\ Len(pls) < 2

\* the stats block inside the loop of src/unnamed/part_000
updateStatsPart(st, pls) ==
    LET h == find(pls, "HumanPlayer")
    IN IF h # 0 /\ pls[h].username # ""
       THEN updateUserStatsPart(st, pls[h].username, pls[h].score,
                                pls[h].score > pls[2].score)
       ELSE st

\* ----------------------------------------------------------------- save file
\* The parsed content of a save file (the value JSON.parse returns) is a
\* record.  has names the properties the object has; a property that is not
\* in has is undefined and its field here is a placeholder.
\* usedWordsIsArray is FALSE when the usedWords property holds a truthy value
\* that cannot be iterated (a number, an object).  An element of players is a
\* record of the same kind, or null (isNull).  Every entry used here has its
\* name, score and id.

\* the properties Player.serialize and the subclasses write
HUMAN_PROPERTIES == {"name", "score", "id", "type", "email", "username"}
COMPUTER_PROPERTIES == {"name", "score", "id", "type", "difficulty"}
SNAPSHOT_PROPERTIES ==
    {"players", "usedWords", "currentCategory", "lastWord", "isGameActive",
     "currentUser"}

\* a null element of the players array
NullEntry ==
    [isNull |-> TRUE, has |-> {}, type |-> "", name |-> << >>, score |-> 0,
     id |-> "", email |-> "", username |-> "", difficulty |-> ""]

\* Player.serialize, extended by HumanPlayer.serialize / ComputerPlayer.serialize
serializePlayer(p) ==
    [isNull |-> FALSE,
     has |-> IF p.type = "ComputerPlayer" THEN COMPUTER_PROPERTIES
             ELSE HUMAN_PROPERTIES,
     type |-> p.type, name |-> p.name, score |-> p.score, id |-> p.id,
     email |-> p.email, username |-> p.username, difficulty |-> p.difficulty]

\* Array.from(set): the members of the Set, listed in the order of insertion
ArrayFrom(set, order) == SelectSeq(order, LAMBDA x : x \in set)

\* new Set(array), the order of iteration: every element at its first place
RECURSIVE SetOrder(_)
SetOrder(array) ==
    IF array = << >> THEN << >>
    ELSE LET rest == SetOrder(SubSeq(array, 1, Len(array) - 1))
             x == array[Len(array)]
         IN IF \E i \in 1..Len(rest) : rest[i] = x THEN rest
            ELSE Append(rest, x)

\* WordGame.serialize
serialize ==
    [has |-> SNAPSHOT_PROPERTIES,
     players |-> [i \in 1..Len(players) |-> serializePlayer(players[i])],
     usedWords |-> ArrayFrom(usedWords, usedWordsOrder),
     usedWordsIsArray |-> TRUE,
     currentCategory |-> currentCategory,
     lastWord |-> lastWord,
     isGameActive |-> isGameActive,
     currentUser |-> currentUser]

\* mutant: the score the constructor set is kept
deserializePlayer_ScoreNotRead(e) ==
    IF "type" \in e.has /\ e.type = "ComputerPlayer"
    THEN [type |-> "ComputerPlayer", name |-> e.name, score |-> 0, id |-> e.id,
          email |-> "", username |-> "",
          difficulty |-> IF "difficulty" \in e.has /\ e.difficulty # ""
                         THEN e.difficulty ELSE "medium",
          db |-> IF prog = "app" THEN "filled" ELSE "emptied"]
    ELSE [type |-> "HumanPlayer", name |-> e.name, score |-> 0, id |-> e.id,
          email |-> IF "email" \in e.has THEN e.email ELSE "",
          username |-> IF "username" \in e.has THEN e.username ELSE "",
          difficulty |-> "", db |-> ""]

\* mutant: no defaults for properties that are missing
deserializePlayer_NoDefaults(e) ==
    IF "type" \in e.has /\ e.type = "ComputerPlayer"
    THEN [type |-> "ComputerPlayer", name |-> e.name, score |-> e.score,
          id |-> e.id, email |-> "", username |-> "",
          difficulty |-> IF "difficulty" \in e.has THEN e.difficulty
                         ELSE "undefined",
          db |-> IF prog = "app" THEN "filled" ELSE "emptied"]
    ELSE [type |-> "HumanPlayer", name |-> e.name, score |-> e.score, id |-> e.id,
          email |-> IF "email" \in e.has THEN e.email ELSE "undefined",
          username |-> IF "username" \in e.has THEN e.username ELSE "undefined",
          difficulty |-> "", db |-> ""]

\* the callback of data.players.map in WordGame.deserialize, for an entry
\* that is not null: the object is chosen by the type tag, then
\* Player.deserialize and the subclass's deserialize fill it
deserializePlayer(e) ==
    IF "type" \in e.has /\ e.type = "ComputerPlayer"
    THEN [type |-> "ComputerPlayer", name |-> e.name, score |-> e.score,
          id |-> e.id, email |-> "", username |-> "",
          difficulty |-> IF "difficulty" \in e.has /\ e.difficulty # ""
                         THEN e.difficulty ELSE "medium",
          db |-> IF prog = "app" THEN "filled" ELSE "emptied"]
    ELSE [type |-> "HumanPlayer", name |-> e.name, score |-> e.score, id |-> e.id,
          email |-> IF "email" \in e.has THEN e.email ELSE "",
          username |-> IF "username" \in e.has THEN e.username ELSE "",
          difficulty |-> "", db |-> ""]

\* data.players.map(...) throws a TypeError: players is undefined, or an
\* element is null (playerData.type)
throwsAtPlayers(data) ==
    \/ "players" \notin data.has
    \/ \E i \in 1..Len(data.players) : data.players[i].isNull

\* new Set(data.usedWords || []) throws a TypeError: not iterable
throwsAtUsedWords(data) == "usedWords" \in data.has /\ ~data.usedWordsIsArray

\* WordGame.deserialize(data): the fields of the game when it returns or
\* throws.  Its assignments run in order, so a throw leaves the fields after
\* it as they were.
deserialize(data) ==
    LET t1 == throwsAtPlayers(data)
        t2 == t1 \/ throwsAtUsedWords(data)
    IN [threw |-> t2,
        players |-> IF t1 THEN players
                    ELSE [i \in 1..Len(data.players) |->
                            deserializePlayer(data.players[i])],
        usedWords |-> IF t2 THEN usedWords
                      ELSE IF "usedWords" \in data.has
                           THEN {data.usedWords[i] : i \in 1..Len(data.usedWords)}
                           ELSE {},
        usedWordsOrder |-> IF t2 THEN usedWordsOrder
                           ELSE IF "usedWords" \in data.has
                                THEN SetOrder(data.usedWords)
                                ELSE << >>,
        currentCategory |-> IF t2 THEN currentCategory
                            ELSE IF "currentCategory" \in data.has
                                 THEN data.currentCategory ELSE "",
        lastWord |-> IF t2 THEN lastWord
                     ELSE IF "lastWord" \in data.has THEN data.lastWord ELSE << >>,
        isGameActive |-> IF t2 THEN isGameActive
                         ELSE IF "isGameActive" \in data.has
                              THEN data.isGameActive ELSE FALSE,
        currentUser |-> IF t2 THEN currentUser
                        ELSE IF "currentUser" \in data.has
                             THEN data.currentUser ELSE NoUser]

\* a snapshot object with every property undefined
EmptySnapshot ==
    [has |-> {}, players |-> << >>, usedWords |-> << >>,
     usedWordsIsArray |-> TRUE, currentCategory |-> "",
     lastWord |-> << >>, isGameActive |-> FALSE, currentUser |-> NoUser]

\* no save file on disk; data is then a placeholder
NoFile == [state |-> "absent", origin |-> "disk", data |-> EmptySnapshot]

\* ---------------------------------------------------------------------- Init
\* the state after construction (UserManager.loadUsers with no users.json: the
\* two default accounts), whatever the save file holds
InitGame ==
    /\ prog \in {"app", "part"}
    /\ pc = "auth"
    /\ users = [u \in {"admin", "user"} |->
                  IF u = "admin" THEN [role |-> "admin", email |-> "admin@system.com"]
                  ELSE [role |-> "user", email |-> "user@example.com"]]
    /\ userStats = [u \in {"admin", "user"} |-> freshStats]
    /\ players = << >>
    /\ usedWords = {} /\ usedWordsOrder = << >>
    /\ currentCategory = ""
    /\ lastWord = << >>
    /\ isGameActive = FALSE
    /\ currentUser = NoUser
    /\ playerIdx = 0 /\ skipped = 0 /\ round = 0 /\ diff = ""
    /\ games = 0 /\ edits = 0 /\ prevAccepted = << >> /\ accepted = 0 /\ results = << >>
    /\ outcome = "none" /\ winner = -1 /\ turns = 0
    /\ loadResult = "none"

\* UserManager.loadUsers with no users.json, and no save file
Init == InitGame /\ file = NoFile

\* ------------------------------------------------------------------- actions
\* #authMenu choice 1 with a login that succeeds (a failed one changes nothing)
Login(u) ==
    /\ pc = "auth"
    /\ u \in DOMAIN users
    /\ currentUser' = [username |-> u, role |-> users[u].role, email |-> users[u].email]
    /\ pc' = "menu"
    /\ UNCHANGED << prog, fileVars, users, userStats, gameVars, loopVars, diff, histVars, edits >>

\* the difficulty #startNewGame of src/app.js takes from the prompt: dc is
\* the parsed number minus one, 'medium' when it names no level
chosenDifficulty(dc) == IF dc \in 0..2 THEN DIFFICULTY_LEVELS[dc + 1] ELSE "medium"

\* the test this.#players.length === 0 of #startNewGame
playersMissing(pls) == Len(pls) = 0

\* mutant: no players are created for an empty list
setupPlayers_NoCreate(n, user, d, ih, ic) == << >>

\* the players created for an empty list (#setupPlayers in
\* src/unnamed/part_000): the person who is logged in and a computer
setupPlayers(n, user, d, ih, ic) ==
    << HumanPlayer(n, user.email, user.username, ih), ComputerPlayer(d, ic) >>

\* the end of #startNewGame, from the players pls of the game up to the
\* first await of #gameLoop
BeginGame(pls) ==
    /\ players' = pls
    /\ isGameActive' = TRUE
    /\ usedWords' = {} /\ usedWordsOrder' = << >>
    /\ lastWord' = << >>
    /\ playerIdx' = 0 /\ skipped' = 0
    /\ round' = IF prog = "app" THEN 1 ELSE 0
    /\ diff' = ""
    /\ pc' = "move"
    /\ games' = games + 1
    /\ prevAccepted' = << >> /\ accepted' = 0 /\ results' = << >>
    /\ outcome' = "none" /\ winner' = -1 /\ turns' = 0

\* the program waits at a prompt of #startNewGame: nothing but where it waits
\* (and what the action names itself) has changed
AwaitPrompt(prompt) ==
    /\ pc' = prompt
    /\ UNCHANGED << players, usedWords, usedWordsOrder, lastWord, isGameActive,
                    loopVars, histVars >>

\* #mainMenu choice 1 and the category typed (cc is the parsed number minus
\* one): the category is assigned; src/app.js then asks for the difficulty,
\* the other copy asks for the name when there are no players and starts the
\* game when there are
ChooseCategory(cc) ==
    /\ pc = "menu"
    /\ currentCategory' = IF cc \in 0..2 THEN CATEGORIES[cc + 1] ELSE CATEGORIES[1]
    /\ IF prog = "app" THEN AwaitPrompt("difficulty") /\ UNCHANGED diff
       ELSE IF playersMissing(players) THEN AwaitPrompt("name") /\ UNCHANGED diff
       ELSE BeginGame(resetScore(players))
    /\ UNCHANGED << prog, fileVars, users, userStats, currentUser, edits >>

\* the difficulty typed at the prompt of #startNewGame of src/app.js: the
\* name is asked for when there are no players, the game starts when there are
ChooseDifficulty(dc) ==
    /\ pc = "difficulty"
    /\ IF playersMissing(players)
       THEN AwaitPrompt("name") /\ diff' = chosenDifficulty(dc)
       ELSE BeginGame(resetScore(players))
    /\ UNCHANGED << prog, fileVars, users, userStats, currentUser, currentCategory,
                    edits >>

\* the name typed at the prompt of #startNewGame / #setupPlayers: the two
\* players are created (new ComputerPlayer() of the other copy is 'medium')
\* and the game starts; ih, ic are the random ids
EnterName(n, ih, ic) ==
    /\ pc = "name"
    /\ BeginGame(setupPlayers(n, currentUser, IF prog = "app" THEN diff ELSE "medium",
                              ih, ic))
    /\ UNCHANGED << prog, fileVars, users, userStats, currentUser, currentCategory,
                    edits >>

\* menu choice 1, in runs of at most MaxGames games
StartNewGame(cc) == games < MaxGames /\ ChooseCategory(cc)

\* the test of the if in #gameLoop: word && this.#validateWord(word)
isAccepted(w) == Truthy(w) /\ validateWord(w, lastWord, usedWords)

\* mutant: an accepted word is not put into the set
nextUsedWords_NotAdded(ok, used, w) == used

\* accepted branch: this.#usedWords.add(word.toLowerCase())
nextUsedWords(ok, used, w) == IF ok THEN used \cup {usedKey(w)} ELSE used

\* Set.prototype.add puts a value that is not a member yet at the end of
\* the order of iteration
nextUsedWordsOrder(ok, order, w) ==
    IF ok /\ ~(\E i \in 1..Len(order) : order[i] = usedKey(w))
    THEN Append(order, usedKey(w)) ELSE order

\* mutant: the last word is set before the word is validated
nextLastWord_BeforeValidation(ok, lastW, w) == IF Truthy(w) THEN w ELSE lastW

\* accepted branch: this.#lastWord = word
nextLastWord(ok, lastW, w) == IF ok THEN w ELSE lastW

\* accepted branch: player.addPoint(...)
nextPlayers(ok, pls, i, w) == IF ok THEN addPoint(pls, i, wordPoints(w)) ELSE pls

\* mutant: the counter stops at one
nextSkipped_StopsAtOne(ok, s) == IF ok THEN 0 ELSE Min(s + 1, 1)

\* mutant: a rejected turn is not counted
nextSkipped_NoCount(ok, s) == IF ok THEN 0 ELSE s

\* mutant: an accepted word does not reset the counter
nextSkipped_NoReset(ok, s) == IF ok THEN s ELSE s + 1

\* accepted branch: skipped = 0; rejected branch: ++skipped / skippedTurns++
nextSkipped(ok, s) == IF ok THEN 0 ELSE s + 1

\* mutant: > for >=
wordCountReached_OffByOne(used) == Cardinality(used) > MAX_WORDS_FOR_WIN

\* this.#usedWords.size >= MAX_WORDS_FOR_WIN (the literal 5 in the other copy)
wordCountReached(used) == Cardinality(used) >= MAX_WORDS_FOR_WIN

\* skipped >= MAX_SKIPPED_TURNS (the literal 2 in the other copy)
tooManySkipped(s) == s >= MAX_SKIPPED_TURNS

\* mutant: <= for <
loopCondition_OffByOne(active, s) == active /\ s <= MAX_SKIPPED_TURNS

\* the while condition of #gameLoop
loopCondition(active, s) == active /\ s < MAX_SKIPPED_TURNS

\* mutant: the flag is left set at a win
nextIsGameActive_NotCleared(won, active) == active

\* this.#isGameActive = false when the word count is reached
nextIsGameActive(won, active) == IF won THEN FALSE ELSE active

\* the same player is asked again
nextPlayerIdx_SamePlayer(i, pls) == i

\* playerIdx = (playerIdx + 1) % this.#players.length
nextPlayerIdx(i, pls) == (i + 1) % Len(pls)

\* one iteration of #gameLoop of src/app.js, from the word makeMove returned
\* to the next await (or the return to the main menu)
ResolveTurnApp(w) ==
    LET ok == isAccepted(w)
        used2 == nextUsedWords(ok, usedWords, w)
        last2 == nextLastWord(ok, lastWord, w)
        pls2 == nextPlayers(ok, players, playerIdx, w)
        skipped2 == nextSkipped(ok, skipped)
        won == ok /\ wordCountReached(used2)
        lost == ~ok /\ tooManySkipped(skipped2)
        active2 == nextIsGameActive(won, isGameActive)
    IN
    /\ usedWords' = used2
    /\ usedWordsOrder' = nextUsedWordsOrder(ok, usedWordsOrder, w)
    /\ lastWord' = last2
    /\ players' = pls2
    /\ skipped' = skipped2
    /\ round' = IF ok THEN round + 1 ELSE round
    /\ isGameActive' = active2
    /\ prevAccepted' = IF ok THEN lastWord ELSE prevAccepted
    /\ accepted' = IF ok THEN accepted + 1 ELSE accepted
    /\ results' = lastTwo(Append(results, ok))
    /\ turns' = turns + 1
    /\ IF won \/ lost
       THEN /\ winner' = showWinner(pls2)
            /\ outcome' = IF won THEN "won" ELSE "attrition"
            /\ userStats' = updateStats(userStats, pls2, last2, currentCategory)
            /\ playerIdx' = playerIdx
            /\ pc' = "menu"
       ELSE /\ playerIdx' = nextPlayerIdx(playerIdx, players)
            /\ pc' = IF loopCondition(active2, skipped2) THEN "move" ELSE "menu"
            /\ UNCHANGED << winner, outcome, userStats >>
    /\ UNCHANGED << prog, fileVars, users, currentUser, currentCategory, games, edits,
                    diff >>

\* one iteration of #gameLoop of src/unnamed/part_000, with the code after
\* the loop when the loop condition fails
ResolveTurnPart(w) ==
    LET ok == isAccepted(w)
        used2 == nextUsedWords(ok, usedWords, w)
        last2 == nextLastWord(ok, lastWord, w)
        pls2 == nextPlayers(ok, players, playerIdx, w)
        skipped2 == nextSkipped(ok, skipped)
        won == wordCountReached(used2)
        throws == won /\ statsThrowsPart(pls2)
        active2 == nextIsGameActive(won, isGameActive)
        again == ~throws /\ loopCondition(active2, skipped2)
        lost == ~throws /\ ~again /\ tooManySkipped(skipped2)
    IN
    /\ usedWords' = used2
    /\ usedWordsOrder' = nextUsedWordsOrder(ok, usedWordsOrder, w)
    /\ lastWord' = last2
    /\ players' = pls2
    /\ skipped' = skipped2
    /\ round' = round
    /\ playerIdx' = nextPlayerIdx(playerIdx, players)
    /\ isGameActive' = active2
    /\ prevAccepted' = IF ok THEN lastWord ELSE prevAccepted
    /\ accepted' = IF ok THEN accepted + 1 ELSE accepted
    /\ results' = lastTwo(Append(results, ok))
    /\ turns' = turns + 1
    /\ winner' = IF won \/ lost THEN showWinner(pls2) ELSE winner
    /\ outcome' = IF lost THEN "attrition" ELSE IF won THEN "won" ELSE outcome
    /\ userStats' = IF won /\ ~throws THEN updateStatsPart(userStats, pls2)
                    ELSE userStats
    /\ pc' = IF throws THEN "crashed" ELSE IF again THEN "move" ELSE "menu"
    /\ UNCHANGED << prog, fileVars, users, currentUser, currentCategory, games, edits,
                    diff >>

ResolveTurn(w) == IF prog = "app" THEN ResolveTurnApp(w) ELSE ResolveTurnPart(w)

\* the person whose turn it is types raw and presses Enter
HumanMove(raw) ==
    /\ pc = "move"
    /\ players[playerIdx + 1].type = "HumanPlayer"
    /\ ResolveTurn(makeMoveHuman(raw))

\* the computer's turn
ComputerMove ==
    /\ pc = "move"
    /\ players[playerIdx + 1].type = "ComputerPlayer"
    /\ \E w \in makeMoveComputer(players[playerIdx + 1], lastWord, usedWords,
                                 currentCategory) : ResolveTurn(w)

\* #managePlayers choice 1
AddPlayer(n, e, id) ==
    /\ pc = "menu"
    /\ edits < MaxEdits
    /\ IF prog = "app" THEN Truthy(trim(n)) ELSE TRUE
    /\ players' = Append(players, HumanPlayer(IF prog = "app" THEN trim(n) ELSE n,
                                              e, "", id))
    /\ edits' = edits + 1
    /\ UNCHANGED << prog, fileVars, pc, users, userStats, currentUser, usedWords,
                    usedWordsOrder, currentCategory, lastWord, isGameActive, loopVars, diff, histVars >>

\* #managePlayers choice 2 with a number in range (idx from 0)
RemovePlayer(idx) ==
    /\ pc = "menu"
    /\ edits < MaxEdits
    /\ Len(players) > 0
    /\ idx >= 0 /\ idx < Len(players)
    /\ players' = [i \in 1..(Len(players) - 1) |->
                     IF i <= idx THEN players[i] ELSE players[i + 1]]
    /\ edits' = edits + 1
    /\ UNCHANGED << prog, fileVars, pc, users, userStats, currentUser, usedWords,
                    usedWordsOrder, currentCategory, lastWord, isGameActive, loopVars, diff, histVars >>

\* mutant: the file is written while a move is awaited as well
SaveGame_DuringGame ==
    /\ pc \in {"menu", "move"}
    /\ file' = [state |-> "json", origin |-> "saved", data |-> serialize]
    /\ UNCHANGED << prog, pc, users, userStats, currentUser, gameVars, loopVars, diff,
                    histVars, edits, loadResult >>

\* saveGame / #saveGame with a write that succeeds (a failed write is
\* reported and changes nothing): JSON.stringify(this.serialize()) goes to
\* the file, and JSON.parse of that text gives the same object back
SaveGame ==
    /\ pc = "menu"
    /\ file' = [state |-> "json", origin |-> "saved", data |-> serialize]
    /\ UNCHANGED << prog, pc, users, userStats, currentUser, gameVars, loopVars, diff,
                    histVars, edits, loadResult >>

\* loadGame / #loadGame, up to the next prompt of #mainMenu.  A file that is
\* absent or is not JSON is reported.  When deserialize throws, src/app.js
\* lets the error reach main (process.exit(1)) and the other copy catches it.
\* When it returns, the menu header reads this.#currentUser.username, a
\* TypeError that reaches main when the snapshot's currentUser is missing or
\* null.
LoadGame ==
    /\ pc = "menu"
    /\ IF file.state # "json"
       THEN /\ loadResult' = file.state
            /\ UNCHANGED << pc, currentUser, gameVars, histVars >>
       ELSE LET d == deserialize(file.data)
            IN /\ players' = d.players
               /\ usedWords' = d.usedWords
               /\ usedWordsOrder' = d.usedWordsOrder
               /\ currentCategory' = d.currentCategory
               /\ lastWord' = d.lastWord
               /\ isGameActive' = d.isGameActive
               /\ currentUser' = d.currentUser
               /\ loadResult' = IF d.threw THEN "failed" ELSE "loaded"
               /\ pc' = IF d.threw
                        THEN (IF prog = "app" THEN "crashed" ELSE "menu")
                        ELSE IF d.currentUser = NoUser THEN "crashed" ELSE "menu"
               /\ IF d.threw
                  THEN UNCHANGED histVars
                  ELSE /\ prevAccepted' = << >> /\ accepted' = 0 /\ results' = << >>
                       /\ outcome' = "none" /\ winner' = -1 /\ turns' = 0
                       /\ UNCHANGED games
    /\ UNCHANGED << prog, users, userStats, loopVars, diff, edits, file >>

Next ==
    \/ \E u \in LoginNames : Login(u)
    \/ \E cc \in 0..3 : StartNewGame(cc)
    \/ \E dc \in 0..3 : ChooseDifficulty(dc)
    \/ \E n \in GameNames, ih \in Ids, ic \in Ids : EnterName(n, ih, ic)
    \/ \E raw \in HumanInputs : HumanMove(raw)
    \/ ComputerMove
    \/ \E n \in PlayerNames, e \in Emails, id \in Ids : AddPlayer(n, e, id)
    \/ \E idx \in 0..(Len(players) - 1) : RemovePlayer(idx)

Spec == Init /\ [][Next]_vars

\* ------------------------------------------- runs with the two first players
NextGame ==
    \/ \E u \in LoginNames : Login(u)
    \/ \E cc \in 0..3 : StartNewGame(cc)
    \/ \E dc \in 0..3 : ChooseDifficulty(dc)
    \/ \E n \in GameNames, ih \in Ids, ic \in Ids : EnterName(n, ih, ic)
    \/ \E raw \in HumanInputs : HumanMove(raw)
    \/ ComputerMove

\* a run of Spec in which the player menu is not used: every game is played
\* by the person and the computer that #startNewGame creates
SpecGame == Init /\ [][NextGame]_vars

\* ------------------------------------------ runs with a game after the first
\* a second game is a rematch; so many are played after the first game
MaxRematches == 1

\* what the people type in these runs: Enter and five words that chain
RematchInputs ==
    { << >>,
      <<1072, 1076>>,                                           \* "ad"
      <<1076, 1077, 1076>>,                                     \* "ded"
      <<1076, 1072>>,                                           \* "da"
      <<1072, 1088, 1072>>,                                     \* "ara"
      <<1076, 1086, 1084>> }                                    \* "dom"

\* menu choice 1 for a first game or a rematch: the player list of the game
\* before, as the player menu left it, is still there
Rematch(cc) == games < 1 + MaxRematches /\ ChooseCategory(cc)

NextRematch ==
    \/ \E u \in LoginNames : Login(u)
    \/ Rematch(0)
    \/ \E dc \in {0, 2} : ChooseDifficulty(dc)
    \/ \E n \in GameNames, ih \in Ids, ic \in Ids : EnterName(n, ih, ic)
    \/ \E raw \in RematchInputs : HumanMove(raw)
    \/ ComputerMove
    \/ \E n \in PlayerNames, e \in Emails, id \in Ids : AddPlayer(n, e, id)
    \/ \E idx \in 0..(Len(players) - 1) : RemovePlayer(idx)

\* games of cities, easy or hard, played one after the other with the player
\* menu used in between
SpecRematch == Init /\ [][NextRematch]_vars

\* ------------------------------------------------ runs with several accounts
\* a map without the key u
without(f, u) == [x \in DOMAIN f \ {u} |-> f[x]]

\* UserManager.deleteUser: src/app.js deletes the stats only when the user
\* existed (users.delete(u) && userStats.delete(u)), the other copy always
deleteUserStats(st, us, u) ==
    IF prog = "app" /\ u \notin DOMAIN us THEN st ELSE without(st, u)

\* #mainMenu choice 7 up to the prompt of #authMenu
SwitchUser ==
    /\ pc = "menu"
    /\ currentUser' = NoUser
    /\ pc' = "auth"
    /\ UNCHANGED << prog, fileVars, users, userStats, gameVars, loopVars, diff, histVars, edits >>

\* the code units of the logins typed at the registration prompt
UsernameUnits ==
    [u \in {"admin", "user", "newbie", "ab"} |->
       IF u = "admin" THEN <<97, 100, 109, 105, 110>>
       ELSE IF u = "user" THEN <<117, 115, 101, 114>>
       ELSE IF u = "newbie" THEN <<110, 101, 119, 98, 105, 101>>
       ELSE <<97, 98>>]

\* Validator.validateUsername: u && u.length >= 3 && /^[a-zA-Z0-9_]+$/.test(u)
validateUsername(w) ==
    /\ Truthy(w)
    /\ Len(w) >= 3
    /\ \A i \in 1..Len(w) :
          \/ w[i] >= 97 /\ w[i] <= 122
          \/ w[i] >= 65 /\ w[i] <= 90
          \/ w[i] >= 48 /\ w[i] <= 57
          \/ w[i] = 95

\* Validator.validatePassword: p && p.length >= 4
validatePassword(p) == Truthy(p) /\ Len(p) >= 4

\* UserManager.registerUser returns success: the login is free and, in
\* src/app.js, the login and the password are valid; the other copy only
\* asks for a password of four code units
registerUserSucceeds(us, u, p) ==
    /\ u \notin DOMAIN us
    /\ IF prog = "app"
       THEN validateUsername(UsernameUnits[u]) /\ validatePassword(p)
       ELSE Len(p) >= 4

\* #authMenu choice 2, #register: login u, password p, its repetition cp
\* and, when the two are equal, the e-mail e.  A registration that succeeds
\* adds the account with role 'user' and new stats, and loginUser makes it
\* the current user; the program stays at the authorisation menu.
Register(u, p, cp, e) ==
    /\ pc = "auth"
    /\ IF p = cp /\ registerUserSucceeds(users, u, p)
       THEN /\ users' = [x \in DOMAIN users \cup {u} |->
                           IF x = u THEN [role |-> "user", email |-> e]
                           ELSE users[x]]
            /\ userStats' = [x \in DOMAIN userStats \cup {u} |->
                               IF x = u THEN freshStats ELSE userStats[x]]
            /\ currentUser' = [username |-> u, role |-> "user", email |-> e]
       ELSE UNCHANGED << users, userStats, currentUser >>
    /\ UNCHANGED << prog, fileVars, pc, gameVars, loopVars, diff, histVars, edits >>

\* #manageUsers choice 3 with the login u typed: for an admin only, and
\* never the account that is logged in
DeleteUser(u) ==
    /\ pc = "menu"
    /\ currentUser.role = "admin"
    /\ u # currentUser.username
    /\ users' = without(users, u)
    /\ userStats' = deleteUserStats(userStats, users, u)
    /\ UNCHANGED << prog, fileVars, pc, currentUser, gameVars, loopVars, diff, histVars, edits >>

\* the logins typed in these runs, and what is typed at the word prompt
AccountNames == {"admin", "user", "newbie"}
\* the logins and the passwords typed at the registration prompt
RegisterNames == {"newbie", "ab", "user"}
Passwords == { <<112, 97, 115, 115, 49, 50, 51, 52>>, <<97, 98, 99>> }  \* "pass1234", "abc"
AccountInputs == { << >>, <<1072, 1076>>, <<1076, 1086, 1084>> }  \* Enter, "ad", "dom"

NextUsers ==
    \/ \E u \in AccountNames : Login(u)
    \/ \E u \in RegisterNames, p \in Passwords, cp \in Passwords, e \in Emails :
          Register(u, p, cp, e)
    \/ Rematch(0)
    \/ ChooseDifficulty(0)
    \/ \E n \in GameNames, ih \in Ids, ic \in Ids : EnterName(n, ih, ic)
    \/ \E raw \in AccountInputs : HumanMove(raw)
    \/ ComputerMove
    \/ SwitchUser
    \/ \E u \in AccountNames : DeleteUser(u)

\* easy games of cities played one after the other, with accounts
\* registered at the authorisation menu, the account switched and accounts
\* deleted by the admin in between
SpecUsers == Init /\ [][NextUsers]_vars

\* ------------------------------------------------- runs that use a save file
\* the words of the save files below
AD == <<1072, 1076>>                                            \* "ad"
AD_CAPITAL == <<1040, 1076>>                                    \* "Ad"

\* the account a save file names as currentUser
SavedUser == [username |-> "user", role |-> "user", email |-> "user@example.com"]

\* Save files found on disk when the program starts: none, one that is not
\* JSON, and six that parse:
\*   {}                                   {"players": [null]}
\*   a game of an earlier run whose usedWords were edited to ["Ad","ad","ad"]
\*   a snapshot without the optional properties, one entry tagged "Robot"
\*   {"players": [], "usedWords": 5}      {"players": []}
DiskFiles ==
    { NoFile,
      [state |-> "unreadable", origin |-> "disk", data |-> EmptySnapshot],
      [state |-> "json", origin |-> "disk", data |-> EmptySnapshot],
      [state |-> "json", origin |-> "disk",
       data |-> [EmptySnapshot EXCEPT !.has = {"players"},
                                      !.players = << NullEntry >>]],
      [state |-> "json", origin |-> "disk",
       data |-> [has |-> SNAPSHOT_PROPERTIES,
                 players |->
                   << [isNull |-> FALSE, has |-> HUMAN_PROPERTIES,
                       type |-> "HumanPlayer", name |-> <<65, 110, 110>>,
                       score |-> 1, id |-> "id1", email |-> "user@example.com",
                       username |-> "user", difficulty |-> ""],
                      [isNull |-> FALSE, has |-> COMPUTER_PROPERTIES,
                       type |-> "ComputerPlayer", name |-> COMPUTER_NAME,
                       score |-> 0, id |-> "id1", email |-> "", username |-> "",
                       difficulty |-> "hard"] >>,
                 usedWords |-> << AD_CAPITAL, AD, AD >>,
                 usedWordsIsArray |-> TRUE,
                 currentCategory |-> "goroda",
                 lastWord |-> AD_CAPITAL,
                 isGameActive |-> TRUE,
                 currentUser |-> SavedUser]],
      [state |-> "json", origin |-> "disk",
       data |-> [EmptySnapshot EXCEPT
                   !.has = {"players", "currentUser"},
                   !.currentUser = SavedUser,
                   !.players =
                     << [isNull |-> FALSE, has |-> {"name", "score", "id"},
                         type |-> "", name |-> <<65, 110, 110>>, score |-> 2,
                         id |-> "id1", email |-> "", username |-> "",
                         difficulty |-> ""],
                        [isNull |-> FALSE, has |-> {"name", "score", "id", "type"},
                         type |-> "Robot", name |-> <<66, 111, 98>>, score |-> 1,
                         id |-> "id1", email |-> "", username |-> "",
                         difficulty |-> ""],
                        [isNull |-> FALSE, has |-> {"name", "score", "id", "type"},
                         type |-> "ComputerPlayer", name |-> COMPUTER_NAME,
                         score |-> 3, id |-> "id1", email |-> "",
                         username |-> "", difficulty |-> ""] >>]],
      [state |-> "json", origin |-> "disk",
       data |-> [EmptySnapshot EXCEPT !.has = {"players", "usedWords"},
                                      !.usedWordsIsArray = FALSE]],
      [state |-> "json", origin |-> "disk",
       data |-> [EmptySnapshot EXCEPT !.has = {"players"}]] }

\* what is typed at the word prompt in these runs
FileInputs == { << >>, <<1076, 1086, 1084>> }                   \* Enter, "dom"

InitFile == InitGame /\ file \in DiskFiles

NextFile ==
    \/ \E u \in LoginNames : Login(u)
    \/ StartNewGame(0)
    \/ ChooseDifficulty(2)
    \/ \E n \in GameNames, ih \in Ids, ic \in Ids : EnterName(n, ih, ic)
    \/ \E raw \in FileInputs : HumanMove(raw)
    \/ ComputerMove
    \/ \E n \in PlayerNames, e \in Emails, id \in Ids : AddPlayer(n, e, id)
    \/ SaveGame
    \/ LoadGame

\* a run that finds one of DiskFiles on disk: log in, add players, play hard
\* games of goroda, save and load from the main menu
SpecFile == InitFile /\ [][NextFile]_vars

\* the same runs with players removed through the player menu as well
NextMenu ==
    \/ \E u \in LoginNames : Login(u)
    \/ StartNewGame(0)
    \/ ChooseDifficulty(2)
    \/ \E n \in GameNames, ih \in Ids, ic \in Ids : EnterName(n, ih, ic)
    \/ \E raw \in FileInputs : HumanMove(raw)
    \/ ComputerMove
    \/ \E n \in PlayerNames, e \in Emails, id \in Ids : AddPlayer(n, e, id)
    \/ \E idx \in 0..(Len(players) - 1) : RemovePlayer(idx)
    \/ SaveGame
    \/ LoadGame

SpecMenu == InitFile /\ [][NextMenu]_vars

\* =================================================================== claims
\* a step that resolves a turn, by its result
AcceptedTurn == pc = "move" /\ accepted' = accepted + 1
RejectedTurn == pc = "move" /\ accepted' = accepted /\ vars' # vars

\* the players with the highest score, as indices from 0
TopScorers(pls) ==
    {i \in 0..(Len(pls) - 1) : \A j \in 1..Len(pls) : pls[i + 1].score >= pls[j].score}

\* C1: of two words accepted one directly after the other in a game (rejected
\* turns may lie between), the later one, lower-cased, starts with the
\* character the earlier one, lower-cased, ends with.
C1_ChainRule ==
    accepted >= 2 => First(toLowerCase(lastWord)) = Last(toLowerCase(prevAccepted))

\* a second word was accepted after a rejected turn, and the two words meet
\* on a letter typed in different cases
C1_Witness ==
    /\ accepted >= 2
    /\ results = << FALSE, TRUE >>
    /\ First(lastWord) # Last(prevAccepted)

\* C2: a word whose lower-cased form is in the used-word set is never
\* accepted, and the set never holds two entries with the same lower-cased
\* form.
C2_NoDuplicateCanonical ==
    /\ [](\A a, b \in usedWords : toLowerCase(a) = toLowerCase(b) => a = b)
    /\ [][AcceptedTurn => toLowerCase(lastWord') \notin usedWords]_vars

\* a word typed in capitals sits in the set in lower case, and the turn after
\* it was rejected
C2_Witness ==
    /\ lastWord # toLowerCase(lastWord)
    /\ toLowerCase(lastWord) \in usedWords
    /\ Cardinality(usedWords) >= 2
    /\ results = << TRUE, FALSE >>

\* C3: a game is a word-count win exactly when its used-word set holds 5
\* entries; that happens on the turn whose accepted word is the fifth, the set
\* never grows past 5, and no move is awaited with 5 entries in the set.
C3_WordCountExact ==
    /\ outcome = "won" <=> Cardinality(usedWords) >= MAX_WORDS_FOR_WIN
    /\ outcome = "won" =>
          /\ Cardinality(usedWords) = MAX_WORDS_FOR_WIN
          /\ accepted = MAX_WORDS_FOR_WIN
          /\ Last(results) = TRUE
          /\ pc # "move"
    /\ pc = "move" => Cardinality(usedWords) < MAX_WORDS_FOR_WIN

\* a game won on word count, the turn before the fifth word a rejected one
C3_Witness ==
    /\ outcome = "won"
    /\ pc = "menu"
    /\ Cardinality(usedWords) = 5
    /\ results = << FALSE, TRUE >>

\* C4 as stated: a game ends by attrition exactly when its last two resolved
\* turns were both rejected, a rejection followed by an accepted word never
\* ends the game, and no move is awaited after two rejections in a row.
C4_AsStated ==
    /\ outcome = "attrition" <=> results = << FALSE, FALSE >>
    /\ outcome = "attrition" => pc # "move"
    /\ results = << FALSE, TRUE >> => pc = "move"

\* C4: a game ends by attrition exactly when its last two resolved turns were
\* both rejected, and no move is awaited after two rejections in a row; a
\* rejection followed by an accepted word never ends the game by attrition:
\* the game goes on, unless that word is the fifth and ends it by the word
\* count.
C4_AttritionExact ==
    /\ outcome = "attrition" <=> results = << FALSE, FALSE >>
    /\ outcome = "attrition" => pc # "move"
    /\ results = << FALSE, TRUE >> => outcome # "attrition"
    /\ results = << FALSE, TRUE >> /\ accepted < MAX_WORDS_FOR_WIN => pc = "move"
    /\ results = << FALSE, TRUE >> /\ accepted = MAX_WORDS_FOR_WIN => outcome = "won"

\* a game lost by attrition after at least one accepted word
C4_Witness == outcome = "attrition" /\ accepted >= 1 /\ pc = "menu"

\* C5: the active flag is true while a game is in progress and false once
\* the game has ended, by word count or by attrition.
C5_TerminalIffInactive ==
    /\ pc = "move" => isGameActive
    /\ outcome # "none" => ~isGameActive

\* C6: the declared winner has the highest score and, when several players
\* share it, is the earliest of them in turn order.
C6_WinnerFirstOfBest ==
    outcome # "none" =>
        /\ winner \in TopScorers(players)
        /\ \A i \in TopScorers(players) : winner <= i

\* C7: an accepted word of length L adds min(floor(L/2), 3) to the score of
\* the player who moved and leaves the other scores alone, in both copies.
C7_PointsPerWord ==
    [][AcceptedTurn =>
         /\ Len(players') = Len(players)
         /\ \A i \in 1..Len(players) :
               players'[i].score =
                   IF i = playerIdx + 1
                   THEN players[i].score + Min(Len(lastWord') \div 2, 3)
                   ELSE players[i].score]_vars

\* C8: a rejected or empty submission leaves the used-word set, the last
\* word and the players (so every score) as they were; it adds one to the
\* skip counter and, when the game goes on, passes the turn and changes
\* nothing else.
C8_RejectionFrame ==
    [][RejectedTurn =>
         /\ usedWords' = usedWords
         /\ lastWord' = lastWord
         /\ players' = players
         /\ skipped' = skipped + 1
         /\ UNCHANGED << currentCategory, isGameActive, round, currentUser, users >>
         /\ pc' = "move" =>
               /\ playerIdx' = (playerIdx + 1) % Len(players)
               /\ userStats' = userStats]_vars

\* a rejection after an accepted word, with the game going on
C8_Witness ==
    /\ results = << TRUE, FALSE >>
    /\ pc = "move"
    /\ skipped = 1
    /\ \E i \in 1..Len(players) : players[i].score > 0

\* C9: the skip counter never exceeds 2; it is 0 when a game starts, an
\* accepted word resets it to 0 and a rejected or empty submission adds 1.
C9_SkipCounter ==
    /\ [](skipped >= 0 /\ skipped <= MAX_SKIPPED_TURNS)
    /\ [][/\ games' = games + 1 => skipped' = 0
          /\ AcceptedTurn => skipped' = 0
          /\ RejectedTurn => skipped' = skipped + 1]_vars

\* an accepted word has reset a counter that a rejection had raised
C9_Witness == skipped = 0 /\ results = << FALSE, TRUE >> /\ pc = "move"

\* C10: an accepted turn adds exactly one entry to the used-word set, and no
\* turn of a game makes the set smaller.
C10_UsedWordsGrow ==
    [][pc = "move" =>
         /\ AcceptedTurn => Cardinality(usedWords') = Cardinality(usedWords) + 1
         /\ Cardinality(usedWords') >= Cardinality(usedWords)
         /\ usedWords \subseteq usedWords']_vars

\* three words accepted, three entries in the set
C10_Witness == accepted = 3 /\ Cardinality(usedWords) = 3 /\ pc = "move"

\* C11: once a word has been accepted in a game, the lower-cased last word is
\* a member of the used-word set; before the first acceptance (and before the
\* first game) the last word is empty.
C11_LastWordIsUsed ==
    /\ accepted >= 1 => toLowerCase(lastWord) \in usedWords
    /\ accepted = 0 => lastWord = << >> /\ usedWords = {}

\* the last word was typed with a capital letter and sits in the set in lower
\* case, with the game going on
C11_Witness ==
    /\ accepted >= 1
    /\ pc = "move"
    /\ lastWord # toLowerCase(lastWord)
    /\ toLowerCase(lastWord) \in usedWords

\* the claim's reasons to reject a submission s (the line a person typed, or
\* what the computer returned), given the last word and the used-word set
RejectCondition(s, lastW, used) ==
    \/ s = NULL
    \/ trim(s) = << >>
    \/ Len(trim(s)) < 2
    \/ toLowerCase(trim(s)) \in used
    \/ lastW # << >> /\ First(toLowerCase(trim(s))) # Last(toLowerCase(lastW))

\* the player to move is a person / the computer
HumanTurn == pc = "move" /\ players[playerIdx + 1].type = "HumanPlayer"
ComputerTurn == pc = "move" /\ players[playerIdx + 1].type = "ComputerPlayer"

\* C12: a turn is a rejected one exactly when the submission is null, empty or
\* white space only, or shorter than 2 after trimming, or its lower-cased form
\* is in the used-word set, or a last word is set and the submission's
\* lower-cased first character differs from the last word's lower-cased last
\* character; every other submission is accepted.
C12_RejectedIff ==
    [][/\ HumanTurn =>
            \A raw \in HumanInputs :
                HumanMove(raw) =>
                    IF RejectCondition(raw, lastWord, usedWords)
                    THEN RejectedTurn /\ ~AcceptedTurn
                    ELSE AcceptedTurn /\ ~RejectedTurn
       /\ ComputerTurn =>
            \A w \in makeMoveComputer(players[playerIdx + 1], lastWord, usedWords,
                                      currentCategory) :
                ResolveTurn(w) =>
                    IF RejectCondition(w, lastWord, usedWords)
                    THEN RejectedTurn /\ ~AcceptedTurn
                    ELSE AcceptedTurn /\ ~RejectedTurn]_vars

\* a person is to move after at least one accepted word, and among the lines
\* that can be typed one fails only for being used already, one only for the
\* chain, and one is acceptable
C12_Witness ==
    /\ HumanTurn
    /\ accepted >= 1
    /\ \E raw \in HumanInputs :
          /\ Len(trim(raw)) >= 2
          /\ toLowerCase(trim(raw)) \in usedWords
          /\ First(toLowerCase(trim(raw))) = Last(toLowerCase(lastWord))
    /\ \E raw \in HumanInputs :
          /\ Len(trim(raw)) >= 2
          /\ toLowerCase(trim(raw)) \notin usedWords
          /\ First(toLowerCase(trim(raw))) # Last(toLowerCase(lastWord))
    /\ \E raw \in HumanInputs : ~RejectCondition(raw, lastWord, usedWords)

\* two player lists agree, player by player in order, on variant, name, id,
\* score and the variant's own fields
SamePlayers(a, b) ==
    /\ Len(a) = Len(b)
    /\ \A i \in 1..Len(a) :
          /\ a[i].type = b[i].type
          /\ a[i].name = b[i].name
          /\ a[i].id = b[i].id
          /\ a[i].score = b[i].score
          /\ a[i].type = "HumanPlayer" =>
                a[i].email = b[i].email /\ a[i].username = b[i].username
          /\ a[i].type = "ComputerPlayer" => a[i].difficulty = b[i].difficulty

\* deserialize(serialize()) in the current state gives the current state back
RoundTripSame ==
    LET d == deserialize(serialize)
    IN /\ ~d.threw
       /\ d.currentCategory = currentCategory
       /\ d.isGameActive = isGameActive
       /\ d.lastWord = lastWord
       /\ d.usedWords = usedWords
       /\ SamePlayers(d.players, players)

\* C13: in every reachable state deserialize(serialize()) yields the same
\* category, active flag, last word, used-word set and, player by player, the
\* same variant, name, id, score and variant fields; and loading from the
\* main menu the file that was saved from the same state leaves all of these
\* as they are.
C13_RoundTrip ==
    /\ []RoundTripSame
    /\ [][LoadGame /\ file.origin = "saved" /\ file.data = serialize =>
            /\ loadResult' = "loaded"
            /\ UNCHANGED << currentCategory, isGameActive, lastWord, usedWords >>
            /\ SamePlayers(players', players)]_vars

\* A game played in this run, with points scored, was saved when it had
\* ended and then loaded: the load has cleared the history of the game, and
\* the last word (longer than any in DiskFiles) can only come from the file
\* the program wrote.
C13_Witness ==
    /\ games >= 1
    /\ outcome = "none"
    /\ loadResult = "loaded"
    /\ file.origin = "saved"
    /\ file.data = serialize
    /\ pc = "menu"
    /\ usedWords # {}
    /\ Len(lastWord) >= 3
    /\ \E i \in 1..Len(players) : players[i].score > 0
    /\ \E i \in 1..Len(players) : players[i].type = "ComputerPlayer"

\* C14: after a load that succeeded, whatever the file's usedWords list holds,
\* the used-word set has no two entries with the same lower-cased form.
C14_LoadCollapsesCase ==
    [][LoadGame /\ loadResult' = "loaded" =>
          \A a, b \in usedWords' : toLowerCase(a) = toLowerCase(b) => a = b]_vars

\* C15: a load that fails (no file, a file that is not JSON, or data on which
\* deserialize throws) leaves the players list, the used-word set, the
\* category, the last word, the active flag and the current user as they were.
\* Stated for the loads after which the program goes on to the main menu (a
\* throw of deserialize ends the process in src/app.js, see C17).
C15_LoadAllOrNothing ==
    [][LoadGame /\ loadResult' # "loaded" /\ pc' = "menu" =>
          UNCHANGED << players, usedWords, currentCategory, lastWord,
                       isGameActive, currentUser >>]_vars

\* a snapshot whose required parts are there: a players array without null
\* elements, and a usedWords property that is an array when it is present
Decodable(data) ==
    /\ "players" \in data.has
    /\ \A i \in 1..Len(data.players) : ~data.players[i].isNull
    /\ "usedWords" \in data.has => data.usedWordsIsArray

\* C16: loading such a snapshot completes, whatever optional properties are
\* missing: a computer entry without difficulty gets "medium", an entry whose
\* tag is missing or unknown becomes a human player, a human without email or
\* username gets empty strings, a missing isGameActive becomes false and a
\* missing usedWords the empty set; name, score and id are taken as given.
C16_DefaultsOnDecode ==
    [][LoadGame /\ file.state = "json" /\ Decodable(file.data) =>
          /\ loadResult' = "loaded"
          /\ "isGameActive" \notin file.data.has => isGameActive' = FALSE
          /\ "usedWords" \notin file.data.has => usedWords' = {}
          /\ Len(players') = Len(file.data.players)
          /\ \A i \in 1..Len(file.data.players) :
                LET e == file.data.players[i]
                    q == players'[i]
                IN /\ q.name = e.name /\ q.score = e.score /\ q.id = e.id
                   /\ IF "type" \in e.has /\ e.type = "ComputerPlayer"
                      THEN /\ q.type = "ComputerPlayer"
                           /\ "difficulty" \notin e.has => q.difficulty = "medium"
                           /\ "difficulty" \in e.has /\ e.difficulty # "" =>
                                 q.difficulty = e.difficulty
                      ELSE /\ q.type = "HumanPlayer"
                           /\ q.email = IF "email" \in e.has THEN e.email ELSE ""
                           /\ q.username = IF "username" \in e.has THEN e.username
                                           ELSE ""]_vars

\* the snapshot without optional properties was loaded before any game or
\* change of the player list: its untagged entry and its "Robot" entry are
\* human players, its computer has difficulty "medium"
C16_Witness ==
    /\ loadResult = "loaded"
    /\ games = 0 /\ edits = 0
    /\ pc = "menu"
    /\ file.origin = "disk"
    /\ file.data.has = {"players", "currentUser"}
    /\ Len(players) = 3
    /\ "type" \notin file.data.players[1].has /\ players[1].type = "HumanPlayer"
    /\ file.data.players[2].type = "Robot" /\ players[2].type = "HumanPlayer"
    /\ players[2].email = "" /\ players[2].username = ""
    /\ players[3].type = "ComputerPlayer" /\ players[3].difficulty = "medium"
    /\ usedWords = {} /\ ~isGameActive

\* C17: a load on whose data deserialize throws (no players list, a null
\* player entry, ...) is reported and the program is back at the main menu; the
\* error never reaches main's handler, which exits the process with status 1.
C17_NoAbortOnLoad ==
    [][LoadGame /\ loadResult' = "failed" => pc' = "menu"]_vars

\* the elements of a list
Range(seq) == {seq[i] : i \in 1..Len(seq)}

\* the claim's candidate set: the words of the category's list whose
\* lower-cased form is not used and which, when a last word is set, start
\* with the last word's lower-cased last character
Candidates(category, lastW, used) ==
    {w \in Range(wordDatabase[category]) :
        /\ toLowerCase(w) \notin used
        /\ lastW = << >> \/ First(toLowerCase(w)) = Last(toLowerCase(lastW))}

\* C18: whenever the computer is to move, in games played after a load too,
\* the words it chooses from are exactly the claim's candidate set: with no
\* candidate the turn is a rejected one, otherwise the computer's word is
\* accepted and is one of the candidates.
C18_CandidateSet ==
    /\ [](ComputerTurn =>
            Range(getAvailableWords(players[playerIdx + 1], lastWord, usedWords,
                                    currentCategory))
              = Candidates(currentCategory, lastWord, usedWords))
    /\ [][ComputerTurn =>
            IF Candidates(currentCategory, lastWord, usedWords) = {}
            THEN RejectedTurn
            ELSE /\ AcceptedTurn
                 /\ lastWord' \in Candidates(currentCategory, lastWord, usedWords)]_vars

\* the candidate of maximum length that comes first in the category's list
EarliestLongest(category, lastW, used) ==
    LET list == wordDatabase[category]
        cand == Candidates(category, lastW, used)
        best == {i \in 1..Len(list) :
                    /\ list[i] \in cand
                    /\ \A w \in cand : Len(w) <= Len(list[i])}
    IN list[CHOOSE i \in best : \A j \in best : i <= j]

\* C19: a computer of difficulty "hard" that has a candidate plays the
\* candidate of maximum length, the earliest in list order when several
\* share that length.
C19_HardEarliestLongest ==
    [][/\ ComputerTurn
       /\ players[playerIdx + 1].difficulty = "hard"
       /\ getAvailableWords(players[playerIdx + 1], lastWord, usedWords,
                            currentCategory) # << >>
       => /\ AcceptedTurn
          /\ lastWord' = EarliestLongest(currentCategory, lastWord, usedWords)]_vars

\* C20: when the computer has no candidate, its turn is resolved as a person's
\* empty line is: the skip counter goes up by 1, the used-word set, the last
\* word and the players (so the scores) stay as they are, and the program
\* does not fail.
C20_NoCandidateIsSkip ==
    [][/\ ComputerTurn
       /\ getAvailableWords(players[playerIdx + 1], lastWord, usedWords,
                            currentCategory) = << >>
       => /\ RejectedTurn
          /\ skipped' = skipped + 1
          /\ UNCHANGED << usedWords, lastWord, players >>
          /\ pc' # "crashed"
          /\ ResolveTurn(makeMoveHuman(<< >>))]_vars

\* the computer, second of two players, has just had no candidate after an
\* accepted word, and the game goes on with the person's turn
C20_Witness ==
    /\ HumanTurn
    /\ Len(players) = 2 /\ playerIdx = 0
    /\ players[2].type = "ComputerPlayer"
    /\ results = << TRUE, FALSE >>
    /\ skipped = 1
    /\ getAvailableWords(players[2], lastWord, usedWords, currentCategory) = << >>

\* a step that resolves the last turn of a game
EndsGame == pc = "move" /\ outcome = "none" /\ outcome' # "none"

\* the user names carried by the human players of a list
Usernames(pls) ==
    {pls[i].username : i \in {j \in 1..Len(pls) : /\ pls[j].type = "HumanPlayer"
                                                   /\ pls[j].username # ""}}

\* the final score of the human player that carries user name u
FinalScore(pls, u) ==
    pls[CHOOSE i \in 1..Len(pls) :
            pls[i].type = "HumanPlayer" /\ pls[i].username = u].score

\* C21: the turn that ends a game, by word count or by attrition, reports the
\* game to the stats store once for the human player with a user name (games
\* played + 1, total score + final score); a turn that does not end the game
\* reports nothing.
C21_StatsOncePerGame ==
    [][/\ EndsGame =>
            \A u \in Usernames(players') :
                /\ u \in DOMAIN userStats /\ u \in DOMAIN userStats'
                /\ userStats'[u].gamesPlayed = userStats[u].gamesPlayed + 1
                /\ userStats'[u].totalScore =
                       userStats[u].totalScore + FinalScore(players', u)
       /\ pc = "move" /\ ~EndsGame => userStats' = userStats]_vars

\* C22 as stated: a game starts with the player at index 0, a resolved turn
\* that leaves the game going passes the turn to (index + 1) mod number of
\* players, and a rejected submission is never followed by a move of the same
\* player.
C22_AsStated ==
    [][/\ games' = games + 1 => playerIdx' = 0
       /\ (AcceptedTurn \/ RejectedTurn) /\ pc' = "move" =>
            playerIdx' = (playerIdx + 1) % Len(players)
       /\ RejectedTurn /\ pc' = "move" => playerIdx' # playerIdx]_vars

\* C22: a game starts with the player at index 0; after a resolved turn that
\* leaves the game going, accepted or rejected, the next player asked is the
\* one at (index + 1) mod number of players.  With two or more players that
\* is never the player who has just moved; in a game of one player it is the
\* same player, who is asked again after a rejected submission.
C22_TurnOrder ==
    [][/\ games' = games + 1 => playerIdx' = 0
       /\ (AcceptedTurn \/ RejectedTurn) /\ pc' = "move" =>
            /\ playerIdx' = (playerIdx + 1) % Len(players)
            /\ Len(players) >= 2 => playerIdx' # playerIdx
            /\ Len(players) = 1 => playerIdx' = playerIdx]_vars

\* three players have each had a turn, one of them rejected, and the turn
\* is back at index 0
C22_Witness ==
    /\ pc = "move"
    /\ Len(players) = 3
    /\ playerIdx = 0
    /\ Len(results) = 2
    /\ FALSE \in {results[1], results[2]}
    /\ accepted >= 1

NextReload ==
    \/ \E u \in LoginNames : Login(u)
    \/ Rematch(0)
    \/ ChooseDifficulty(2)
    \/ \E n \in GameNames, ih \in Ids, ic \in Ids : EnterName(n, ih, ic)
    \/ \E raw \in FileInputs : HumanMove(raw)
    \/ ComputerMove
    \/ SaveGame
    \/ LoadGame

\* a run that finds one of DiskFiles on disk: log in, play hard games of
\* goroda one after the other, save and load from the main menu, before the
\* first game or between two games
SpecReload == InitFile /\ [][NextReload]_vars

\* a game has been started and no turn of it is resolved yet
GameJustStarted == pc = "move" /\ results = << >>

\* C23: whatever came before (a fresh program, a finished game, a loaded
\* snapshot), a game that has just been started has no used word and no last
\* word, skip counter 0, the active flag set, the turn at index 0 and score 0
\* for every player.
C23_NewGameResets ==
    GameJustStarted =>
        /\ usedWords = {}
        /\ lastWord = << >>
        /\ skipped = 0
        /\ isGameActive
        /\ playerIdx = 0
        /\ \A i \in 1..Len(players) : players[i].score = 0

\* a second game has just been started with the three players of a loaded
\* snapshot, who had scores 2, 1 and 3 in the file and none of whom has a
\* user name, after a game that was reported for the person: that first
\* game was played by other players, so the snapshot was loaded between the
\* two games
C23_Witness ==
    /\ GameJustStarted
    /\ games = 2
    /\ loadResult = "loaded"
    /\ Len(players) = 3
    /\ \A i \in 1..3 : players[i].username = "" /\ file.data.players[i].score > 0
    /\ "user" \in DOMAIN userStats
    /\ userStats["user"].gamesPlayed >= 1

\* the turn that ends a game reports it for user name u
Reported(u) ==
    /\ EndsGame
    /\ u \in DOMAIN userStats /\ u \in DOMAIN userStats'
    /\ userStats'[u].gamesPlayed = userStats[u].gamesPlayed + 1

\* C24: when a finished game is reported for the human player with a user
\* name, the report counts a win exactly when that player is the one
\* #showWinner announces, with any number of players and any scores.
C24_WinFlagIsDeclaredWinner ==
    [][\A u \in Usernames(players') :
          Reported(u) =>
             (userStats'[u].wins = userStats[u].wins + 1
                <=> /\ players'[winner' + 1].type = "HumanPlayer"
                    /\ players'[winner' + 1].username = u)]_vars

\* C25: when a game starts after the difficulty choice dc (at the difficulty
\* prompt when there are players, at the name prompt when there are none),
\* every computer player of that game selects its words with that
\* difficulty, also when the player list of an earlier game is still there.
C25_ChosenDifficulty ==
    [][/\ \A dc \in {0, 2} :
            ChooseDifficulty(dc) /\ pc' = "move" =>
               \A i \in 1..Len(players') :
                  players'[i].type = "ComputerPlayer" =>
                     players'[i].difficulty = chosenDifficulty(dc)
       /\ \A n \in GameNames, ih \in Ids, ic \in Ids :
            EnterName(n, ih, ic) /\ prog = "app" =>
               \A i \in 1..Len(players') :
                  players'[i].type = "ComputerPlayer" =>
                     players'[i].difficulty = diff]_vars

\* C26: a game played with a player list the menus can produce, a single
\* player left after the computer was removed included, goes through its
\* turns, its end and the winner and stats code without an error that ends
\* the process.
C26_NoErrorInGame == pc # "crashed"

\* C27: whatever was added, removed or loaded before, the game loop never
\* waits for a move with an empty player list: a game started with no
\* players creates the person who is logged in and a computer first.
C27_LoopHasPlayers == pc = "move" => Len(players) >= 1

\* a game is played by the two players #startNewGame created after a load
\* that failed half way had replaced a list of one added player by an empty
\* list
C27_Witness ==
    /\ pc = "move"
    /\ loadResult = "failed"
    /\ edits = 1
    /\ Len(players) = 2
    /\ players[1].username = "user"
    /\ players[2].type = "ComputerPlayer"

\* the player list is the same, or one player with score 0 was appended, or
\* one player was taken out
ScoresKept ==
    \/ players' = players
    \/ /\ Len(players') = Len(players) + 1
       /\ SubSeq(players', 1, Len(players)) = players
       /\ players'[Len(players')].score = 0
    \/ /\ Len(players') = Len(players) - 1
       /\ \E idx \in 1..Len(players) :
             players' = [i \in 1..(Len(players) - 1) |->
                           IF i < idx THEN players[i] ELSE players[i + 1]]

\* C28: once a game has ended, by the word count or by attrition, no move is
\* asked for or resolved, and the used-word set, the last word and every
\* player's score stay as they are until a game is started or a save file
\* is loaded.
C28_TerminalIsFinal ==
    /\ [](outcome # "none" => pc # "move")
    /\ [][outcome # "none" /\ games' = games /\ ~LoadGame =>
            /\ usedWords' = usedWords
            /\ lastWord' = lastWord
            /\ ScoresKept
            /\ UNCHANGED << accepted, results, outcome, winner, skipped >>
            /\ pc' # "move"]_vars

\* a game ended by attrition, nothing was loaded, and a player was added
\* from the menu afterwards
C28_Witness ==
    /\ outcome = "attrition"
    /\ pc = "menu"
    /\ loadResult = "none"
    /\ Len(players) = 3
    /\ usedWords # {}
    /\ players[1].score > 0
    /\ players[3].score = 0

\* the players are the same but for the score of the one at index i (from 0)
OnlyScoreOf(i) ==
    /\ Len(players') = Len(players)
    /\ \A j \in 1..Len(players) :
          /\ [players'[j] EXCEPT !.score = 0] = [players[j] EXCEPT !.score = 0]
          /\ j # i + 1 => players'[j] = players[j]

\* C29: while a move is awaited, of the one player whose turn it is, the only
\* thing that happens is that this move comes back and the turn is resolved:
\* no save, load or player-menu operation runs, and the used-word set, the
\* last word, the scores, the player list and the category change only as
\* the resolution of that move changes them.
C29_OneMoveAtATime ==
    [][pc = "move" =>
         /\ \/ \E raw \in FileInputs : HumanMove(raw)
            \/ ComputerMove
         /\ OnlyScoreOf(playerIdx)
         /\ RejectedTurn => UNCHANGED << usedWords, lastWord, players >>
         /\ UNCHANGED << currentCategory, currentUser, users, fileVars, games, edits >>]_vars

\* the computer's move is awaited in a game that goes on, with a save file
\* written earlier and a third player in the list
C29_Witness ==
    /\ pc = "move"
    /\ players[playerIdx + 1].type = "ComputerPlayer"
    /\ file.origin = "saved"
    /\ Len(players) = 3
    /\ accepted >= 1

\* the turns a game can take: each of the MAX_WORDS_FOR_WIN accepted words
\* may come after one rejected turn
TurnLimit == 2 * MAX_WORDS_FOR_WIN

\* C30 as stated: a game is over after at most 9 resolved turns.
C30_NineTurns == turns <= 9 /\ (pc = "move" => turns < 9)

\* C30: whatever the players submit, a game is over after at most 10
\* resolved turns: rejected turns never outnumber the accepted words by more
\* than the skip counter, so no move is asked for after the tenth turn.
C30_TenTurns ==
    /\ turns <= TurnLimit
    /\ turns <= 2 * accepted + skipped
    /\ pc = "move" => turns < TurnLimit /\ accepted < MAX_WORDS_FOR_WIN

\* a game ended by the word count with its tenth turn: every one of the five
\* words came after a rejected turn
C30_Witness ==
    /\ turns = TurnLimit
    /\ outcome = "won"
    /\ accepted = MAX_WORDS_FOR_WIN

\* the values the computer whose turn it is may return
ComputerReturns ==
    makeMoveComputer(players[playerIdx + 1], lastWord, usedWords, currentCategory)

\* C31: a word the computer returns, with any difficulty, is one of the words
\* its own filter let through and passes the game's validator, so the turn
\* is an accepted one; a computer turn is a rejected one (a skip) only when
\* the computer returned null.
C31_ComputerWordIsValid ==
    /\ [](ComputerTurn =>
            \A w \in ComputerReturns :
               IF w = NULL
               THEN getAvailableWords(players[playerIdx + 1], lastWord, usedWords,
                                      currentCategory) = << >>
               ELSE /\ w \in Range(getAvailableWords(players[playerIdx + 1], lastWord,
                                                     usedWords, currentCategory))
                    /\ validateWord(w, lastWord, usedWords)
                    /\ isAccepted(w))
    /\ [][ComputerTurn =>
            /\ RejectedTurn => ComputerReturns = {NULL}
            /\ ComputerReturns # {NULL} => AcceptedTurn /\ lastWord' \in ComputerReturns]_vars

\* a hard computer has just answered the person's accepted word with a word
\* of its list, which was accepted too
C31_Witness ==
    /\ HumanTurn
    /\ results = << TRUE, TRUE >>
    /\ Len(players) = 2
    /\ players[2].type = "ComputerPlayer"
    /\ players[2].difficulty = "hard"
    /\ lastWord \in Range(wordDatabase[currentCategory])
    /\ players[2].score > 0

\* the stats record of account u is written by the step
StatsWritten(u) ==
    \/ u \in DOMAIN userStats' /\ u \notin DOMAIN userStats
    \/ u \in DOMAIN userStats' /\ u \in DOMAIN userStats /\ userStats'[u] # userStats[u]

\* C32: the turn that ends a game writes the stats of no account other than
\* the one that is logged in while the game is played, and so of no account
\* that was deleted, whatever logins, switches of user, deletions and new
\* games came before.
C32_StatsForCurrentUser ==
    [][EndsGame =>
          \A u \in AccountNames :
             StatsWritten(u) => u = currentUser.username /\ u \in DOMAIN users]_vars

====
